---- MODULE Spec2Model ----
(***************************************************************************)
(* A model of the content-extraction pipeline of backend/server.py:         *)
(* ContentScraper.scrape_url (the four-strategy extraction chain, the AI    *)
(* enhancement and the construction of the ScrapedContent record), the      *)
(* text normalisers it uses, and ContentScraper.scrape_pdf's item records.  *)
(*                                                                          *)
(* Text is a sequence of one-character strings, so that strip, split and    *)
(* the regular-expression substitutions are computed character by           *)
(* character, as Python computes them.                                      *)
(***************************************************************************)
EXTENDS Integers, Sequences, FiniteSets, TLC

VARIABLES
    pc,                        \* position inside scrape_url
    url,                       \* scrape_url argument
    team_id,                   \* scrape_url argument
    user_id,                   \* scrape_url argument
    content_type,              \* scrape_url argument (the caller's hint)
    gemini_model,              \* ContentScraper.gemini_model is set
    best_content,              \* local of scrape_url
    best_word_count,           \* local of scrape_url
    extraction_methods_tried,  \* local of scrape_url
    enhanced_result,           \* local of scrape_url
    enhance_response,          \* history: what the AI answered to the enhancement
    result,                    \* what scrape_url returned or raised
    ran,                       \* history: the strategies run in this call
    attempts,                  \* history: the attempts the strategies produced
    pdf_items,                 \* what scrape_pdf returned
    file_content,              \* scrape_pdf argument, as pdfplumber reads it
    max_depth,                 \* bulk_scrape_with_links argument
    max_links,                 \* bulk_scrape_with_links argument
    include_base_url,          \* bulk_scrape_with_links argument
    scraped_items,             \* local of bulk_scrape_with_links
    processed_urls,            \* local of bulk_scrape_with_links
    link_decisions,            \* local of bulk_scrape_with_links
    found_links,               \* history: all_links before line 375 cuts it
    all_links,                 \* local of bulk_scrape_with_links
    link_index,                \* position of "for link in all_links"
    bulk_result,               \* what bulk_scrape_with_links returned
    unique_links,              \* what _extract_links_from_content returned
    journal                    \* history: the scrapes, fetches, delays and verdicts

bulk_vars == <<max_depth, max_links, include_base_url, scraped_items, processed_urls,
               link_decisions, found_links, all_links, link_index, bulk_result,
               unique_links, journal>>

vars == <<pc, url, team_id, user_id, content_type, gemini_model, best_content,
          best_word_count, extraction_methods_tried, enhanced_result,
          enhance_response, result, ran, attempts, pdf_items, file_content,
          max_depth, max_links,
          include_base_url, scraped_items, processed_urls, link_decisions,
          found_links, all_links, link_index, bulk_result, unique_links, journal>>

----------------------------------------------------------------------------
(* Characters and Python's str methods.                                     *)

Whitespace == {" ", "\t", "\n"}
LowerCase == {"a", "b", "w"}
UpperCase == {"A", "B", "W"}
Cased == LowerCase \cup UpperCase

ToUpper(c) ==
    CASE c = "a" -> "A" [] c = "b" -> "B" [] c = "w" -> "W" [] OTHER -> c

ToLower(c) ==
    CASE c = "A" -> "a" [] c = "B" -> "b" [] c = "W" -> "w" [] OTHER -> c

IsSpace(c) == c \in Whitespace

\* The subsequence of s at the positions i of lo..hi with keep[i].
RECURSIVE KeepRange(_, _, _, _)
KeepRange(s, keep, lo, hi) ==
    IF lo > hi THEN <<>>
    ELSE IF lo = hi THEN (IF keep[lo] THEN <<s[lo]>> ELSE <<>>)
    ELSE LET mid == (lo + hi) \div 2
         IN  KeepRange(s, keep, lo, mid) \o KeepRange(s, keep, mid + 1, hi)

Keep(s, keep) == KeepRange(s, keep, 1, Len(s))

\* The elements of a sequence.
Range(seq) == {seq[k] : k \in 1..Len(seq)}

\* n copies of the text s.
RECURSIVE Repeat(_, _)
Repeat(s, n) ==
    IF n = 0 THEN <<>>
    ELSE IF n = 1 THEN s
    ELSE Repeat(s, n \div 2) \o Repeat(s, n - (n \div 2))

\* str.strip()
Strip(s) ==
    IF \A i \in 1..Len(s) : IsSpace(s[i]) THEN <<>>
    ELSE LET first == CHOOSE i \in 1..Len(s) :
                          ~IsSpace(s[i]) /\ \A j \in 1..(i - 1) : IsSpace(s[j])
             last == CHOOSE i \in 1..Len(s) :
                          ~IsSpace(s[i]) /\ \A j \in (i + 1)..Len(s) : IsSpace(s[j])
         IN  SubSeq(s, first, last)

\* str.strip(c)
StripChar(s, c) ==
    IF \A i \in 1..Len(s) : s[i] = c THEN <<>>
    ELSE LET first == CHOOSE i \in 1..Len(s) :
                          s[i] # c /\ \A j \in 1..(i - 1) : s[j] = c
             last == CHOOSE i \in 1..Len(s) :
                          s[i] # c /\ \A j \in (i + 1)..Len(s) : s[j] = c
         IN  SubSeq(s, first, last)

\* len(s.split()): the number of maximal runs of non-whitespace characters.
WordCount(s) ==
    Cardinality({i \in 1..Len(s) :
                    ~IsSpace(s[i]) /\ (i = 1 \/ IsSpace(s[i - 1]))})

\* s.split(sep) for a one-character separator.
RECURSIVE SplitOn(_, _)
SplitOn(s, sep) ==
    IF \A i \in 1..Len(s) : s[i] # sep THEN <<s>>
    ELSE LET k == CHOOSE i \in 1..Len(s) :
                      s[i] = sep /\ \A j \in 1..(i - 1) : s[j] # sep
         IN  <<SubSeq(s, 1, k - 1)>> \o SplitOn(SubSeq(s, k + 1, Len(s)), sep)

\* sep.join(parts)
RECURSIVE JoinWith(_, _)
JoinWith(parts, sep) ==
    IF Len(parts) = 0 THEN <<>>
    ELSE IF Len(parts) = 1 THEN parts[1]
    ELSE parts[1] \o sep \o JoinWith(Tail(parts), sep)

\* s.replace(c, d) for one-character c and d.
ReplaceChar(s, c, d) == [i \in 1..Len(s) |-> IF s[i] = c THEN d ELSE s[i]]

StartsAt(s, sub, p) ==
    /\ p + Len(sub) - 1 <= Len(s)
    /\ \A k \in 1..Len(sub) : s[p + k - 1] = sub[k]

\* s.replace(sub, ''): every non-overlapping occurrence, leftmost first.
RECURSIVE RemoveSub(_, _)
RemoveSub(s, sub) ==
    IF \A p \in 1..Len(s) : ~StartsAt(s, sub, p) THEN s
    ELSE LET p == CHOOSE q \in 1..Len(s) :
                      StartsAt(s, sub, q) /\ \A r \in 1..(q - 1) : ~StartsAt(s, sub, r)
         IN  SubSeq(s, 1, p - 1) \o RemoveSub(SubSeq(s, p + Len(sub), Len(s)), sub)

\* str.isupper(): some cased character, and no lower-case one.
IsUpperStr(s) ==
    /\ \E i \in 1..Len(s) : s[i] \in Cased
    /\ \A i \in 1..Len(s) : s[i] \notin LowerCase

\* str.title(): a cased character is upper-cased unless it follows a cased one.
TitleCase(s) ==
    [i \in 1..Len(s) |->
        IF s[i] \in Cased
        THEN IF i > 1 /\ s[i - 1] \in Cased THEN ToLower(s[i]) ELSE ToUpper(s[i])
        ELSE s[i]]

EndsWith(s, c) == Len(s) > 0 /\ s[Len(s)] = c

----------------------------------------------------------------------------
(* The regular-expression substitutions of the text normalisers.            *)

\* The maximal run of whitespace around position i of s (s[i] is whitespace).
\* (searched from i outwards)
RunStart(s, i) ==
    i - (CHOOSE d \in 0..(i - 1) :
            /\ \A j \in (i - d)..i : IsSpace(s[j])
            /\ (i - d = 1 \/ ~IsSpace(s[i - d - 1])))

RunEnd(s, i) ==
    CHOOSE b \in i..Len(s) :
        /\ \A j \in i..b : IsSpace(s[j])
        /\ (b = Len(s) \/ ~IsSpace(s[b + 1]))

\* re.sub(r'\n\s*\n\s*\n', '\n\n', s): in every maximal run of whitespace that
\* holds three or more newlines, the stretch from its first newline to its
\* last one (the leftmost, greedy match) becomes two newlines.
CollapseBlankLines(s) ==
    LET keep == [i \in 1..Len(s) |->
                    IF ~IsSpace(s[i]) THEN TRUE
                    ELSE LET a == RunStart(s, i)
                             b == RunEnd(s, i)
                             nls == {j \in a..b : s[j] = "\n"}
                         IN  IF Cardinality(nls) < 3 THEN TRUE
                             ELSE \/ \A j \in nls : i <= j
                                  \/ \A j \in nls : i >= j]
    IN  Keep(s, keep)

\* re.sub(r'[ \t]+', ' ', s)
CollapseSpaces(s) ==
    LET blank(i) == s[i] \in {" ", "\t"}
        keep == [i \in 1..Len(s) |-> ~(blank(i) /\ i > 1 /\ blank(i - 1))]
    IN  ReplaceChar(Keep(s, keep), "\t", " ")

\* A match of r'\[\]\([^)]*\)' starts at p.
EmptyLinkAt(s, p) ==
    /\ StartsAt(s, <<"[", "]", "(">>, p)
    /\ \E q \in (p + 3)..Len(s) : s[q] = ")"

\* re.sub(r'\[\]\([^)]*\)', '', s)
RECURSIVE RemoveEmptyLinks(_)
RemoveEmptyLinks(s) ==
    IF \A p \in 1..Len(s) : ~EmptyLinkAt(s, p) THEN s
    ELSE LET p == CHOOSE x \in 1..Len(s) :
                      EmptyLinkAt(s, x) /\ \A y \in 1..(x - 1) : ~EmptyLinkAt(s, y)
             q == CHOOSE x \in (p + 3)..Len(s) :
                      s[x] = ")" /\ \A y \in (p + 3)..(x - 1) : s[y] # ")"
         IN  SubSeq(s, 1, p - 1) \o RemoveEmptyLinks(SubSeq(s, q + 1, Len(s)))

----------------------------------------------------------------------------
(* The text normalisers.                                                    *)

HeaderMaxLen == 100
SubHeaderMaxLen == 80

\* One line of _clean_and_convert_to_markdown's loop.
MarkdownLine(raw_line) ==
    LET line == Strip(raw_line)
    IN  IF Len(line) = 0 THEN <<>>
        ELSE IF Len(line) < HeaderMaxLen /\ IsUpperStr(line)
             THEN <<"#", "#", " ">> \o TitleCase(line)
        ELSE IF /\ Len(line) < SubHeaderMaxLen
                /\ ~EndsWith(line, ".") /\ ~EndsWith(line, ",") /\ ~EndsWith(line, ";")
             THEN <<"#", "#", "#", " ">> \o line
        ELSE line

\* ContentScraper._clean_and_convert_to_markdown (TextNormalizer.normalize)
_clean_and_convert_to_markdown(text) ==
    LET cleaned == CollapseSpaces(CollapseBlankLines(Strip(text)))
        lines == SplitOn(cleaned, "\n")
        processed_lines == [k \in 1..Len(lines) |-> MarkdownLine(lines[k])]
    IN  JoinWith(processed_lines, <<"\n">>)

\* ContentScraper._clean_markdown
_clean_markdown(markdown_text) ==
    Strip(RemoveEmptyLinks(CollapseSpaces(CollapseBlankLines(markdown_text))))

\* urlparse(url) is a record [scheme, netloc, path] of texts.
\* ContentScraper._extract_title_from_url
_extract_title_from_url(u) ==
    LET path == StripChar(u.path, "/")
        segments == SplitOn(path, "/")
    IN  IF Len(path) > 0
        THEN TitleCase(ReplaceChar(ReplaceChar(segments[Len(segments)], "-", " "),
                                   "_", " "))
        ELSE TitleCase(RemoveSub(u.netloc, <<"w", "w", "w", ".">>))

----------------------------------------------------------------------------
(* Optional values (None or a str) and the values of a JSON object's keys   *)
(* (missing, null or a str).                                                *)

Absent == [kind |-> "absent", text |-> <<>>]
Null == [kind |-> "null", text |-> <<>>]
Str(t) == [kind |-> "str", text |-> t]

\* A category is held as one TLA+ string.
NoCategory == [kind |-> "absent", text |-> ""]
NullCategory == [kind |-> "null", text |-> ""]
Category(c) == [kind |-> "str", text |-> c]

\* bool(v)
Truthy(v) == v.kind = "str" /\ Len(v.text) > 0

\* d.get(k)
Get(v) == IF v.kind = "absent" THEN Null ELSE v

\* d.get(k, default)
GetOr(v, default) == IF v.kind = "absent" THEN default ELSE v

\* a or b
OrElse(a, b) == IF Truthy(a) THEN a ELSE b

----------------------------------------------------------------------------
(* What the AI service answers to one generate_content call.  json.loads is *)
(* the library's: a response carries, beside its text, what json.loads      *)
(* makes of the whole text, of its first line and of the part between a     *)
(* ```json fence and the next ``` .                                         *)

JsonObject(content, title, author, category) ==
    [content |-> content, title |-> title, author |-> author, category |-> category]

EmptyObject == JsonObject(Absent, Absent, Absent, NoCategory)

\* json.loads gave a dict, gave another JSON value, or raised JSONDecodeError.
ParsedDict(obj) == [parsed |-> "dict", obj |-> obj]
ParsedOther == [parsed |-> "other", obj |-> EmptyObject]
ParseError == [parsed |-> "error", obj |-> EmptyObject]

\* fence: "none" (no ```json in the text), "unclosed" (no ``` after it, or
\* nothing between the two) or "closed".
Response(text, whole, first_line, fence, inner) ==
    [raises |-> FALSE, text |-> text, whole |-> whole, first_line |-> first_line,
     fence |-> fence, inner |-> inner]

\* generate_content, or reading response.text, raised.
ResponseRaises ==
    [raises |-> TRUE, text |-> <<>>, whole |-> ParseError, first_line |-> ParseError,
     fence |-> "none", inner |-> ParseError]

\* No call was made.
NoResponse ==
    [raises |-> FALSE, text |-> <<>>, whole |-> ParseError, first_line |-> ParseError,
     fence |-> "none", inner |-> ParseError]

\* A JSON value on one line, pretty-printed over several lines, in a fence.
OneLineJson(text, parsed) == Response(text, parsed, parsed, "none", ParseError)
ManyLineJson(text, parsed) == Response(text, parsed, ParseError, "none", ParseError)
FencedJson(text, parsed) == Response(text, ParseError, ParseError, "closed", parsed)
UnclosedFence(text) == Response(text, ParseError, ParseError, "unclosed", ParseError)
FreeText(text) == Response(text, ParseError, ParseError, "none", ParseError)

----------------------------------------------------------------------------
(* ContentScraper._enhance_content_with_gemini                              *)

NotEnhanced(raw_content) ==
    [content |-> Str(raw_content), category |-> Category("blog"), enhanced |-> FALSE,
     title |-> Absent, author |-> Absent]

EnhancedFrom(obj) ==
    [content |-> obj.content, category |-> obj.category, enhanced |-> TRUE,
     title |-> obj.title, author |-> obj.author]

\* "Fallback: return enhanced content as markdown"
EnhancedFreeform(text) ==
    [content |-> Str(text), category |-> Category("blog"), enhanced |-> TRUE,
     title |-> Null, author |-> Null]

\* The call to the AI service is made.
EnhanceCalls(model, raw_content) == model /\ Len(Strip(raw_content)) > 0

\* What the method returns when the service answers response.
_enhance_content_with_gemini(model, raw_content, response) ==
    IF ~EnhanceCalls(model, raw_content) THEN NotEnhanced(raw_content)
    ELSE IF response.raises THEN NotEnhanced(raw_content)
    ELSE IF Len(response.text) = 0 THEN NotEnhanced(raw_content)
    ELSE IF response.whole.parsed = "dict" THEN EnhancedFrom(response.whole.obj)
    \* result["enhanced"] = True raises TypeError, caught by the outer except
    ELSE IF response.whole.parsed = "other" THEN NotEnhanced(raw_content)
    ELSE IF response.fence = "closed" /\ response.inner.parsed = "dict"
         THEN EnhancedFrom(response.inner.obj)
    ELSE EnhancedFreeform(Strip(response.text))

----------------------------------------------------------------------------
(* ContentScraper.scrape_url: the extraction chain.                         *)

MinTextChars == 50
MinGoodWords == 100

NoContent ==
    [some |-> FALSE, title |-> <<>>, content |-> <<>>, author |-> Null,
     method |-> "", word_count |-> 0]

\* title or self._extract_title_from_url(url)
TitleOr(title, u) == IF Len(title) > 0 THEN title ELSE _extract_title_from_url(u)

Candidate(title, content, author, method) ==
    [some |-> TRUE, title |-> title, content |-> content, author |-> author,
     method |-> method, word_count |-> WordCount(content)]

\* "if word_count > best_word_count: best_content = {...}; best_word_count =
\* word_count" and the append to extraction_methods_tried that follows it.
Offer(best, count, tried, cand) ==
    [best_content |-> IF cand.word_count > count THEN cand ELSE best,
     best_word_count |-> IF cand.word_count > count THEN cand.word_count ELSE count,
     tried |-> Append(tried, cand.method)]

Untouched(best, count, tried) ==
    [best_content |-> best, best_word_count |-> count, tried |-> tried]

\* Method 1.  article is what Article(url).download()/parse() gave:
\* [raises, text, title, authors].
Method1Accepts(article) ==
    ~article.raises /\ Len(article.text) > 0
        /\ Len(Strip(article.text)) > MinTextChars

Method1Candidate(article, u) ==
    Candidate(TitleOr(article.title, u), article.text,
              IF Len(article.authors) > 0
              THEN Str(JoinWith(article.authors, <<",", " ">>)) ELSE Null,
              "newspaper3k")

\* Method 2.  page is what trafilatura gave: [raises, downloaded, text,
\* meta_title, meta_author] (an empty meta text: no metadata, or none of it).
Method2Accepts(page) ==
    ~page.raises /\ page.downloaded /\ Len(page.text) > 0
        /\ Len(Strip(page.text)) > MinTextChars

Method2Candidate(page, u) ==
    Candidate(TitleOr(page.meta_title, u), page.text,
              IF Len(page.meta_author) > 0 THEN Str(page.meta_author) ELSE Null,
              "trafilatura")

\* Method 3.  doc is what requests.get and readability gave: [raises, title,
\* summary, text], text being html2text's rendering of the summary.
Method3Accepts(doc) ==
    ~doc.raises /\ Len(doc.summary) > 0 /\ Len(Strip(doc.summary)) > MinTextChars

Method3Candidate(doc, u) ==
    Candidate(TitleOr(doc.title, u), _clean_markdown(doc.text), Null, "readability")

\* Method 4 runs: "(not best_content or best_word_count < 100) and
\* self.gemini_model".
NeedsFallbackAlways(best, count, model) == model
NeedsFallback(best, count, model) ==
    (~best.some \/ count < MinGoodWords) /\ model

\* The first line of the response parses to a dict with a truthy "content".
Method4Accepts(response) ==
    /\ ~response.raises
    /\ Len(response.text) > 0
    /\ response.first_line.parsed = "dict"
    /\ Truthy(Get(response.first_line.obj.content))

Method4Candidate(response, u) ==
    LET obj == response.first_line.obj
    IN  Candidate(OrElse(Get(obj.title), Str(_extract_title_from_url(u))).text,
                  obj.content.text, Get(obj.author), "gemini-direct-fetch")

\* Method 4 assigns best_content whatever it held.
Replace(best, count, tried, cand) ==
    [best_content |-> cand, best_word_count |-> cand.word_count,
     tried |-> Append(tried, cand.method)]

\* Each method's try block swallows its exception: the next one runs.
StepAfterAbort(step, raised) ==
    IF raised THEN "finish"
    ELSE CASE step = "method1" -> "method2"
           [] step = "method2" -> "method3"
           [] step = "method3" -> "method4"
           [] step = "method4" -> "finish"
StepAfter(step, raised) ==
    CASE step = "method1" -> "method2"
      [] step = "method2" -> "method3"
      [] step = "method3" -> "method4"
      [] step = "method4" -> "finish"

\* How a method ended, for the history.
Outcome(raised, accepted) ==
    IF raised THEN "raised" ELSE IF accepted THEN "attempt" ELSE "nothing"

----------------------------------------------------------------------------
(* ContentScraper.scrape_url: enhancement and the ScrapedContent record.    *)

\* (Finalize without the normalisation of the else branch.)
FinalizeRaw(best, enhanced, hint) ==
    IF enhanced.enhanced
    THEN [content |-> GetOr(enhanced.content, Str(best.content)),
          title |-> OrElse(Get(enhanced.title), Str(best.title)).text,
          author |-> OrElse(Get(enhanced.author), best.author),
          content_type |-> GetOr(enhanced.category, Category(hint)),
          extraction_method |-> <<best.method, "+gemini">>]
    ELSE [content |-> Str(best.content),
          title |-> best.title,
          author |-> best.author,
          content_type |-> Category(hint),
          extraction_method |-> <<best.method>>]

\* The fields the if/else on enhanced_result.get("enhanced") computes.
Finalize(best, enhanced, hint) ==
    IF enhanced.enhanced
    THEN [content |-> GetOr(enhanced.content, Str(best.content)),
          title |-> OrElse(Get(enhanced.title), Str(best.title)).text,
          author |-> OrElse(Get(enhanced.author), best.author),
          content_type |-> GetOr(enhanced.category, Category(hint)),
          extraction_method |-> <<best.method, "+gemini">>]
    ELSE [content |-> Str(_clean_and_convert_to_markdown(best.content)),
          title |-> best.title,
          author |-> best.author,
          content_type |-> Category(hint),
          extraction_method |-> <<best.method>>]

NoItem ==
    [title |-> <<>>, content |-> <<>>, content_type |-> "", source_url |-> "",
     author |-> Null, user_id |-> "", team_id |-> "", word_count |-> 0,
     extraction_method |-> <<>>]

NoResult == [status |-> "none", item |-> NoItem, cause |-> "", tried |-> <<>>]

\* raise HTTPException(status_code=400, ...)
Failure(cause, tried) ==
    [status |-> "error", item |-> NoItem, cause |-> cause, tried |-> tried]

\* "raise Exception(f"All extraction methods failed. Tried: ...")"
Exhausted(tried) == Failure("exhausted", tried)

\* The record filed under one fixed scope, whatever the caller's.
ReturnedUnscoped(final, u, team, user) ==
    IF final.content.kind # "str" \/ final.content_type.kind # "str"
    THEN Failure("exception", <<>>)
    ELSE [status |-> "ok",
          item |-> [title |-> final.title,
                    content |-> final.content.text,
                    content_type |-> final.content_type.text,
                    source_url |-> u.name,
                    author |-> final.author,
                    user_id |-> "None",
                    team_id |-> "team-a",
                    word_count |-> WordCount(final.content.text),
                    extraction_method |-> final.extraction_method],
          cause |-> "", tried |-> <<>>]

\* final_content.split() needs a str, and so does ScrapedContent.content_type:
\* anything else raises inside the outer try.
Returned(final, u, team, user) ==
    IF final.content.kind # "str" \/ final.content_type.kind # "str"
    THEN Failure("exception", <<>>)
    ELSE [status |-> "ok",
          item |-> [title |-> final.title,
                    content |-> final.content.text,
                    content_type |-> final.content_type.text,
                    source_url |-> u.name,
                    author |-> final.author,
                    user_id |-> user,
                    team_id |-> team,
                    word_count |-> WordCount(final.content.text),
                    extraction_method |-> final.extraction_method],
          cause |-> "", tried |-> <<>>]

----------------------------------------------------------------------------
(* ContentScraper.scrape_pdf.  A pdf is the sequence of its pages' texts    *)
(* (page.extract_text() or ""); page numbers count from 0, as in the code.  *)

TocScanPages == 10
MinTocTitleLen == 5
MinTocEntries == 3
MinHeadingLen == 5
MinHeadingChunks == 3
MinSectionChars == 50
TargetChunkSize == 8000

Digits == {"0", "1", "2", "3", "4", "5", "6", "7", "8", "9"}

DigitValue(c) ==
    CASE c = "0" -> 0 [] c = "1" -> 1 [] c = "2" -> 2 [] c = "3" -> 3 [] c = "4" -> 4
      [] c = "5" -> 5 [] c = "6" -> 6 [] c = "7" -> 7 [] c = "8" -> 8 [] c = "9" -> 9

\* int(digits)
RECURSIVE ToInt(_)
ToInt(digits) ==
    IF Len(digits) = 0 THEN 0
    ELSE 10 * ToInt(SubSeq(digits, 1, Len(digits) - 1)) + DigitValue(digits[Len(digits)])

\* \w, and the class [\w\s\-:] of the TOC pattern
IsWordChar(c) == c \in Cased \cup Digits \cup {"_"}
TocTitleChars == Cased \cup Digits \cup Whitespace \cup {"_", "-", ":"}

\* str.splitlines()
SplitLines(s) ==
    IF Len(s) = 0 THEN <<>>
    ELSE LET parts == SplitOn(s, "\n")
         IN  IF Len(parts[Len(parts)]) = 0 THEN SubSeq(parts, 1, Len(parts) - 1)
             ELSE parts

\* The first position of lo..Len(s) whose character is not in the set chars
\* (Len(s) + 1 if there is none).
SkipChars(s, lo, chars) ==
    IF \A i \in lo..Len(s) : s[i] \in chars THEN Len(s) + 1
    ELSE CHOOSE i \in lo..Len(s) : s[i] \notin chars /\ \A j \in lo..(i - 1) : s[j] \in chars

\* toc_pattern.match(line) for r'([A-Z][\w\s\-:]+)\s+\.{2,}\s*(\d+)$': a capital,
\* title characters of which the last is whitespace, two or more dots, optional
\* whitespace, digits up to the end.  [matched, title, number]
TocMatch(line) ==
    LET dot == SkipChars(line, 1, TocTitleChars)
        after_dots == SkipChars(line, dot, {"."})
        number_at == SkipChars(line, after_dots, Whitespace)
        matched == /\ dot >= 4
                   /\ dot <= Len(line)
                   /\ line[1] \in UpperCase
                   /\ IsSpace(line[dot - 1])
                   /\ after_dots - dot >= 2
                   /\ number_at <= Len(line)
                   /\ \A i \in number_at..Len(line) : line[i] \in Digits
    IN  IF matched
        THEN [matched |-> TRUE, title |-> Strip(SubSeq(line, 1, dot - 2)),
              number |-> ToInt(SubSeq(line, number_at, Len(line)))]
        ELSE [matched |-> FALSE, title |-> <<>>, number |-> 0]

\* The TOC entries of one page: (title, page) for each matching line whose
\* title is long enough and whose page is one of the document.
TocEntriesOfPage(text, page_count) ==
    LET lines == SplitLines(text)
        found == [k \in 1..Len(lines) |-> TocMatch(Strip(lines[k]))]
        entry == [k \in 1..Len(lines) |->
                     [title |-> found[k].title, page |-> found[k].number - 1]]
        keep == [k \in 1..Len(lines) |->
                    /\ found[k].matched
                    /\ Len(found[k].title) > MinTocTitleLen
                    /\ found[k].number >= 1
                    /\ found[k].number - 1 < page_count]
    IN  Keep(entry, keep)

RECURSIVE TocEntries(_, _)
TocEntries(pdf, pages_scanned) ==
    IF pages_scanned = 0 THEN <<>>
    ELSE TocEntries(pdf, pages_scanned - 1)
             \o TocEntriesOfPage(pdf[pages_scanned], Len(pdf))

\* sorted(toc, key=lambda x: x[1]): a stable sort by page.
RECURSIVE SortedByPage(_)
SortedByPage(toc) ==
    IF Len(toc) <= 1 THEN toc
    ELSE LET rest == SortedByPage(SubSeq(toc, 1, Len(toc) - 1))
             last == toc[Len(toc)]
             before == Keep(rest, [k \in 1..Len(rest) |-> rest[k].page <= last.page])
             after == Keep(rest, [k \in 1..Len(rest) |-> rest[k].page > last.page])
         IN  before \o <<last>> \o after

Smaller(a, b) == IF a < b THEN a ELSE b

\* ContentScraper._detect_toc
_detect_toc(pdf) ==
    LET toc == TocEntries(pdf, Smaller(TocScanPages, Len(pdf)))
    IN  IF Len(toc) >= MinTocEntries THEN SortedByPage(toc) ELSE <<>>

\* The range read through end_page itself.
RECURSIVE ExtractThroughEnd(_, _, _)
ExtractThroughEnd(pdf, start_page, end_page) ==
    IF start_page > Smaller(end_page, Len(pdf) - 1) THEN <<>>
    ELSE pdf[start_page + 1] \o <<"\n">> \o ExtractThroughEnd(pdf, start_page + 1, end_page)

\* ContentScraper._extract_text_range: pages start_page .. end_page - 1.
RECURSIVE _extract_text_range(_, _, _)
_extract_text_range(pdf, start_page, end_page) ==
    IF start_page >= Smaller(end_page, Len(pdf)) THEN <<>>
    ELSE pdf[start_page + 1] \o <<"\n">> \o _extract_text_range(pdf, start_page + 1, end_page)

\* A heading line of _chunk_by_headings: upper-case and longer than 5
\* characters, or a match of r'^\d+\.\s+[A-Z]'.
IsHeading(line) ==
    \/ IsUpperStr(line) /\ Len(line) > MinHeadingLen
    \/ LET dot == SkipChars(line, 1, Digits)
           capital == SkipChars(line, dot + 1, Whitespace)
       IN  /\ dot >= 2
           /\ dot <= Len(line)
           /\ line[dot] = "."
           /\ capital >= dot + 2
           /\ capital <= Len(line)
           /\ line[capital] \in UpperCase

\* The first heading line of a page, stripped: [found, line].
FirstHeading(text) ==
    LET lines == SplitLines(text)
        hits == {k \in 1..Len(lines) : IsHeading(Strip(lines[k]))}
    IN  IF hits = {} THEN [found |-> FALSE, line |-> <<>>]
        ELSE [found |-> TRUE,
              line |-> Strip(lines[CHOOSE k \in hits : \A j \in hits : k <= j])]

NoTitle == [some |-> FALSE, text |-> <<>>]
SomeTitle(text) == [some |-> TRUE, text |-> text]

\* The loop of _chunk_by_headings from page i on (scan holds chunks,
\* current_title, current_content and start_page), then the final flush.
\* A chunk is (title, content, page_range): page_range "a-b" is <<a, b>>.
RECURSIVE HeadingScan(_, _, _)
HeadingScan(pdf, i, scan) ==
    IF i >= Len(pdf)
    THEN IF Len(Strip(scan.current_content)) > 0
         THEN Append(scan.chunks,
                     [title |-> scan.current_title,
                      content |-> Strip(scan.current_content),
                      page_range |-> <<scan.start_page + 1, Len(pdf)>>])
         ELSE scan.chunks
    ELSE LET text == pdf[i + 1]
             heading == FirstHeading(text)
         IN  IF heading.found
             THEN HeadingScan(pdf, i + 1,
                      [chunks |-> IF Len(Strip(scan.current_content)) > 0
                                  THEN Append(scan.chunks,
                                           [title |-> scan.current_title,
                                            content |-> Strip(scan.current_content),
                                            page_range |-> <<scan.start_page + 1, i>>])
                                  ELSE scan.chunks,
                       current_title |-> SomeTitle(heading.line),
                       current_content |-> <<>>,
                       start_page |-> i])
             ELSE HeadingScan(pdf, i + 1,
                      [scan EXCEPT !.current_content = @ \o text \o <<"\n">>])

\* ContentScraper._chunk_by_headings
_chunk_by_headings(pdf) ==
    HeadingScan(pdf, 0, [chunks |-> <<>>, current_title |-> NoTitle,
                         current_content |-> <<>>, start_page |-> 0])

\* The loop of _adaptive_chunking from page i on, then the final flush.
RECURSIVE AdaptiveScan(_, _, _, _)
AdaptiveScan(pdf, i, scan, target_chunk_size) ==
    IF i >= Len(pdf)
    THEN IF Len(Strip(scan.current_content)) > 0
         THEN Append(scan.chunks,
                     [content |-> Strip(scan.current_content),
                      page_range |-> <<scan.start_page + 1, Len(pdf)>>])
         ELSE scan.chunks
    ELSE LET content == scan.current_content \o pdf[i + 1] \o <<"\n">>
         IN  IF Len(content) > target_chunk_size
             THEN AdaptiveScan(pdf, i + 1,
                      [chunks |-> Append(scan.chunks,
                                      [content |-> Strip(content),
                                       page_range |-> <<scan.start_page + 1, i + 1>>]),
                       current_content |-> <<>>,
                       start_page |-> i + 1],
                      target_chunk_size)
             ELSE AdaptiveScan(pdf, i + 1, [scan EXCEPT !.current_content = content],
                               target_chunk_size)

\* The loop with a target no document reaches: one chunk for the document.
_adaptive_unbounded(pdf) ==
    AdaptiveScan(pdf, 0, [chunks |-> <<>>, current_content |-> <<>>, start_page |-> 0],
                 100 * TargetChunkSize)

\* ContentScraper._adaptive_chunking
_adaptive_chunking(pdf) ==
    AdaptiveScan(pdf, 0, [chunks |-> <<>>, current_content |-> <<>>, start_page |-> 0],
                 TargetChunkSize)

\* The title of an item: a text, or f"Section {i} (pages {a}-{b})" or
\* f"Chunk {i} (pages {a}-{b})".
TextTitle(text) == [kind |-> "text", text |-> text, index |-> 0, pages |-> <<0, 0>>]
SectionTitle(i, pages) == [kind |-> "Section", text |-> <<>>, index |-> i, pages |-> pages]
ChunkTitle(i, pages) == [kind |-> "Chunk", text |-> <<>>, index |-> i, pages |-> pages]

\* The dict scrape_pdf appends for one section.
PdfItem(title, content, filename, user) ==
    [title |-> title,
     content |-> _clean_and_convert_to_markdown(content),
     content_type |-> "book",
     source_url |-> filename,
     author |-> <<>>,
     user_id |-> IF user = "None" THEN "" ELSE user]

\* "if len(content.strip()) > 50"
LongEnough(content) == Len(Strip(content)) > MinSectionChars

TocItems(pdf, toc, filename, user) ==
    LET content == [i \in 1..Len(toc) |->
                       _extract_text_range(pdf, toc[i].page,
                           IF i < Len(toc) THEN toc[i + 1].page ELSE Len(pdf))]
        item == [i \in 1..Len(toc) |->
                    PdfItem(TextTitle(toc[i].title), content[i], filename, user)]
    IN  Keep(item, [i \in 1..Len(toc) |-> LongEnough(content[i])])

HeadingItems(chunks, filename, user) ==
    LET item == [i \in 1..Len(chunks) |->
                    PdfItem(IF chunks[i].title.some /\ Len(chunks[i].title.text) > 0
                            THEN TextTitle(chunks[i].title.text)
                            ELSE SectionTitle(i, chunks[i].page_range),
                            chunks[i].content, filename, user)]
    IN  Keep(item, [i \in 1..Len(chunks) |-> LongEnough(chunks[i].content)])

AdaptiveItems(chunks, filename, user) ==
    LET item == [i \in 1..Len(chunks) |->
                    PdfItem(ChunkTitle(i, chunks[i].page_range), chunks[i].content,
                            filename, user)]
    IN  Keep(item, [i \in 1..Len(chunks) |-> LongEnough(chunks[i].content)])

\* ContentScraper.scrape_pdf on a document pdfplumber could open and read.
scrape_pdf(pdf, filename, user) ==
    LET toc == _detect_toc(pdf)
        toc_items == TocItems(pdf, toc, filename, user)
        heading_chunks == _chunk_by_headings(pdf)
        heading_items == HeadingItems(heading_chunks, filename, user)
    IN  IF Len(toc) > 0 /\ Len(toc_items) > 0 THEN toc_items
        ELSE IF Len(heading_chunks) >= MinHeadingChunks /\ Len(heading_items) > 0
             THEN heading_items
        ELSE AdaptiveItems(_adaptive_chunking(pdf), filename, user)

----------------------------------------------------------------------------
(* URLs as texts: urllib.parse.urlparse and urljoin, for URLs without       *)
(* parameters (";") and without "." or ".." path segments.                  *)

LowerLetters == <<"a", "b", "c", "d", "e", "f", "g", "h", "i", "j", "k", "l", "m", "n", "o", "p", "q", "r", "s", "t", "u", "v", "w", "x", "y", "z">>
UpperLetters == <<"A", "B", "C", "D", "E", "F", "G", "H", "I", "J", "K", "L", "M", "N", "O", "P", "Q", "R", "S", "T", "U", "V", "W", "X", "Y", "Z">>
Letters26 == {LowerLetters[k] : k \in 1..26} \cup {UpperLetters[k] : k \in 1..26}

\* str.lower(), one character
LowerOf(c) ==
    IF \E k \in 1..26 : UpperLetters[k] = c
    THEN LowerLetters[CHOOSE k \in 1..26 : UpperLetters[k] = c]
    ELSE c

\* str.lower()
Lower(s) == [i \in 1..Len(s) |-> LowerOf(s[i])]

\* sub in s
Contains(s, sub) == \E p \in 1..Len(s) : StartsAt(s, sub, p)

\* s.endswith(sub)
EndsWithText(s, sub) ==
    Len(s) >= Len(sub) /\ SubSeq(s, Len(s) - Len(sub) + 1, Len(s)) = sub

\* s.find(c) for a character of the set chars: the first position holding one
\* (Len(s) + 1 if there is none).
FindChar(s, chars) == SkipChars(s, 1, {s[i] : i \in 1..Len(s)} \ chars)

\* urlsplit's scheme_chars
SchemeChars == Letters26 \cup Digits \cup {"+", "-", "."}

\* urlsplit, last step: the query is what follows the first "?".
SplitQuery(scheme, netloc, before, fragment) ==
    [scheme |-> scheme, netloc |-> netloc,
     path |-> SubSeq(before, 1, FindChar(before, {"?"}) - 1),
     query |-> SubSeq(before, FindChar(before, {"?"}) + 1, Len(before)),
     fragment |-> fragment]

\* urlsplit: the fragment is what follows the first "#".
SplitFragment(scheme, netloc, tail) ==
    SplitQuery(scheme, netloc, SubSeq(tail, 1, FindChar(tail, {"#"}) - 1),
               SubSeq(tail, FindChar(tail, {"#"}) + 1, Len(tail)))

\* urlsplit: after "//" the netloc runs up to the first "/", "?" or "#".
SplitAfterSlashes(scheme, after) ==
    SplitFragment(scheme,
                  SubSeq(after, 1, FindChar(after, {"/", "?", "#"}) - 1),
                  SubSeq(after, FindChar(after, {"/", "?", "#"}), Len(after)))

SplitNetloc(scheme, rest) ==
    IF StartsAt(rest, <<"/", "/">>, 1)
    THEN SplitAfterSlashes(scheme, SubSeq(rest, 3, Len(rest)))
    ELSE SplitFragment(scheme, <<>>, rest)

\* urlsplit: the text up to the first ":" is a scheme if it starts with a
\* letter and holds scheme characters only.
HasScheme(text, colon) ==
    /\ colon > 1
    /\ colon <= Len(text)
    /\ text[1] \in Letters26
    /\ \A i \in 1..(colon - 1) : text[i] \in SchemeChars

\* urlparse(url): scheme, netloc, path, query and fragment.
urlparse(text) ==
    SplitNetloc(IF HasScheme(text, FindChar(text, {":"}))
                THEN Lower(SubSeq(text, 1, FindChar(text, {":"}) - 1)) ELSE <<>>,
                IF HasScheme(text, FindChar(text, {":"}))
                THEN SubSeq(text, FindChar(text, {":"}) + 1, Len(text)) ELSE text)

\* urllib.parse.uses_relative and uses_netloc, as far as the schemes of the
\* sample URLs go.
UsesRelative == {<<"h", "t", "t", "p">>, <<"h", "t", "t", "p", "s">>, <<"f", "t", "p">>, <<>>}

\* urlunparse
urlunparse(scheme, netloc, path, query, fragment) ==
    LET slashed == IF Len(path) > 0 /\ path[1] # "/" THEN <<"/">> \o path ELSE path
        located == IF Len(netloc) > 0
                      \/ (Len(scheme) > 0 /\ scheme \in UsesRelative
                             /\ ~StartsAt(path, <<"/", "/">>, 1))
                   THEN <<"/", "/">> \o netloc \o slashed ELSE path
    IN  (IF Len(scheme) > 0 THEN scheme \o <<":">> ELSE <<>>)
            \o located
            \o (IF Len(query) > 0 THEN <<"?">> \o query ELSE <<>>)
            \o (IF Len(fragment) > 0 THEN <<"#">> \o fragment ELSE <<>>)

\* The segments of a relative reference placed after the base's directory,
\* the empty ones in the middle filtered out.
JoinedSegments(bpath, path) ==
    LET parts == SplitOn(bpath, "/")
        base_parts == IF Len(parts[Len(parts)]) # 0
                      THEN SubSeq(parts, 1, Len(parts) - 1) ELSE parts
        segments == base_parts \o SplitOn(path, "/")
    IN  IF Len(segments) <= 2 THEN segments
        ELSE <<segments[1]>>
                 \o Keep(segments, [i \in 1..Len(segments) |->
                                       i > 1 /\ i < Len(segments) /\ Len(segments[i]) > 0])
                 \o <<segments[Len(segments)]>>

\* urljoin, last step: the reference h, of the base's scheme, is placed on
\* the base b.
JoinParsed(b, h, scheme, joined) ==
    IF Len(h.netloc) > 0
    THEN urlunparse(scheme, h.netloc, h.path, h.query, h.fragment)
    ELSE IF Len(h.path) = 0
         THEN urlunparse(scheme, b.netloc, b.path,
                         IF Len(h.query) > 0 THEN h.query ELSE b.query, h.fragment)
    ELSE urlunparse(scheme, b.netloc, IF Len(joined) > 0 THEN joined ELSE <<"/">>,
                    h.query, h.fragment)

JoinFrom(href, b, h) ==
    IF (Len(h.scheme) > 0 /\ h.scheme # b.scheme)
          \/ (IF Len(h.scheme) > 0 THEN h.scheme ELSE b.scheme) \notin UsesRelative
    THEN href
    ELSE JoinParsed(b, h, b.scheme,
                    JoinWith(IF Len(h.path) > 0 /\ h.path[1] = "/"
                             THEN SplitOn(h.path, "/")
                             ELSE JoinedSegments(b.path, h.path),
                             <<"/">>))

\* urljoin(base, href) for a non-empty base and href.
urljoin(base, href) == JoinFrom(href, urlparse(base), urlparse(href))

----------------------------------------------------------------------------
(* ContentScraper._is_valid_blog_link.  The patterns are searched with      *)
(* re.IGNORECASE: they are matched, in lower case, against the lowered URL. *)

\* skip_patterns that are plain substrings
SkipSubstrings ==
    { <<"/", "t", "a", "g", "/">>, <<"/", "c", "a", "t", "e", "g", "o", "r", "y", "/">>, <<"/", "a", "u", "t", "h", "o", "r", "/">>, <<"/", "s", "e", "a", "r", "c", "h", "/">>,
      <<"/", "a", "b", "o", "u", "t">>, <<"/", "c", "o", "n", "t", "a", "c", "t">>, <<"/", "p", "r", "i", "v", "a", "c", "y">>, <<"/", "t", "e", "r", "m", "s">>,
      <<"/", "w", "p", "-", "a", "d", "m", "i", "n", "/">>, <<"/", "w", "p", "-", "c", "o", "n", "t", "e", "n", "t", "/">>, <<"/", "f", "e", "e", "d">>,
      <<"#">>, <<"m", "a", "i", "l", "t", "o", ":">>, <<"t", "e", "l", ":">>, <<"j", "a", "v", "a", "s", "c", "r", "i", "p", "t", ":">> }

\* skip_patterns of the form \.ext$
SkipSuffixes ==
    { <<".", "c", "s", "s">>, <<".", "j", "s">>, <<".", "p", "n", "g">>, <<".", "j", "p", "g">>, <<".", "j", "p", "e", "g">>, <<".", "g", "i", "f">>, <<".", "p", "d", "f">> }

\* \d{n} at position p
DigitsAt(s, p, n) == p + n - 1 <= Len(s) /\ \A i \in p..(p + n - 1) : s[i] \in Digits

\* [a-zA-Z0-9-], lowered
SlugChars == {LowerLetters[k] : k \in 1..26} \cup Digits \cup {"-"}

\* Some skip pattern is found in the lowered URL u.
MatchesSkipPattern(u) ==
    \/ \E sub \in SkipSubstrings : Contains(u, sub)
    \/ \E suffix \in SkipSuffixes : EndsWithText(u, suffix)
    \* /page/\d+
    \/ \E p \in 1..Len(u) : StartsAt(u, <<"/", "p", "a", "g", "e", "/">>, p) /\ DigitsAt(u, p + 6, 1)
    \* /\d{4}/$
    \/ /\ Len(u) >= 6
       /\ u[Len(u) - 5] = "/" /\ DigitsAt(u, Len(u) - 4, 4) /\ u[Len(u)] = "/"
    \* /\d{4}/\d{2}/$
    \/ /\ Len(u) >= 9
       /\ u[Len(u) - 8] = "/" /\ DigitsAt(u, Len(u) - 7, 4) /\ u[Len(u) - 3] = "/"
       /\ DigitsAt(u, Len(u) - 2, 2) /\ u[Len(u)] = "/"

\* Some article pattern is found in the lowered URL u.
MatchesArticlePattern(u) ==
    \* /\d{4}/\d{2}/\d{2}/
    \/ \E p \in 1..Len(u) :
          /\ p + 11 <= Len(u)
          /\ u[p] = "/" /\ DigitsAt(u, p + 1, 4) /\ u[p + 5] = "/"
          /\ DigitsAt(u, p + 6, 2) /\ u[p + 8] = "/" /\ DigitsAt(u, p + 9, 2)
          /\ u[p + 11] = "/"
    \* /posts?/, /articles?/, /blog/
    \/ \E sub \in {<<"/", "p", "o", "s", "t", "/">>, <<"/", "p", "o", "s", "t", "s", "/">>, <<"/", "a", "r", "t", "i", "c", "l", "e", "/">>, <<"/", "a", "r", "t", "i", "c", "l", "e", "s", "/">>, <<"/", "b", "l", "o", "g", "/">>} :
          Contains(u, sub)
    \* /\d+/
    \/ \E p \in 1..Len(u) : \E q \in (p + 2)..Len(u) :
          u[p] = "/" /\ u[q] = "/" /\ \A i \in (p + 1)..(q - 1) : u[i] \in Digits
    \* /[a-zA-Z0-9-]+/$
    \/ /\ Len(u) >= 3
       /\ u[Len(u)] = "/"
       /\ \E p \in 1..(Len(u) - 2) :
             u[p] = "/" /\ \A i \in (p + 1)..(Len(u) - 1) : u[i] \in SlugChars

\* The old logic with the article patterns tried before the skip patterns.
InclusionFirst(parsed, u) ==
    IF parsed.scheme \notin {<<"h", "t", "t", "p">>, <<"h", "t", "t", "p", "s">>} THEN FALSE
    ELSE IF MatchesArticlePattern(u) THEN TRUE
    ELSE IF MatchesSkipPattern(u) THEN FALSE
    ELSE Len(parsed.path) > 1 /\ parsed.path[Len(parsed.path)] # "/"

\* "Fallback to old logic", lines 277-300, on the parsed and the lowered URL.
HeuristicOn(parsed, u) ==
    IF parsed.scheme \notin {<<"h", "t", "t", "p">>, <<"h", "t", "t", "p", "s">>} THEN FALSE
    ELSE IF MatchesSkipPattern(u) THEN FALSE
    ELSE IF MatchesArticlePattern(u) THEN TRUE
    ELSE Len(parsed.path) > 1 /\ parsed.path[Len(parsed.path)] # "/"

HeuristicLink(link) == HeuristicOn(urlparse(link), Lower(link))

\* A classification answer of the AI service: it raises, or it has a text of
\* which the first line parses (json.loads) to a dict, with or without a key
\* "is_blog_link", to another JSON value, or to nothing.
Verdict(raises, text, parsed, is_blog_link) ==
    [raises |-> raises, text |-> text, parsed |-> parsed, is_blog_link |-> is_blog_link]

\* "result = json.loads(first line); bool(result.get("is_blog_link", False))"
\* gave a value (did not raise).
VerdictParses(response) == Len(response.text) > 0 /\ response.parsed = "dict"

\* _is_valid_blog_link(url, base_domain) when the AI service, if configured,
\* answers response.
_is_valid_blog_link(model, link, response) ==
    IF model /\ response.raises THEN FALSE
    ELSE IF model /\ VerdictParses(response) THEN response.is_blog_link
    ELSE HeuristicLink(link)

----------------------------------------------------------------------------
(* The inputs: the sizes of the sample texts, the arguments of a call and   *)
(* what each library and the AI service may answer.                         *)

FewWords == 40
ManyWords == 120
AiWords == 10

Words(n) == Repeat(<<"a", " ">>, n)
Letters(n) == Repeat(<<"a">>, n)
Html(body) == <<"<", "b", ">">> \o body \o <<"<", "/", "b", ">">>

\* An upper-case heading, blank lines, then a long sentence.
HeadedText(n) ==
    <<"A", "B", " ", "\t", "B", "\n", " ", "\n", "\n", "\n">> \o Words(n) \o <<".">>

Urls ==
    { [name |-> "https://ab.a/a-b/ab_ba/", netloc |-> <<"a", "b", ".", "a">>,
       path |-> <<"/", "a", "-", "b", "/", "a", "b", "_", "b", "a", "/">>],
      [name |-> "https://www.ab.a", netloc |-> <<"w", "w", "w", ".", "a", "b", ".", "a">>,
       path |-> <<>>] }

\* (team_id, user_id) of a request; user_id is optional.
Scopes == {<<"team-a", "None">>, <<"team-b", "user-a">>}
Hints == {"blog", "podcast_transcript"}

Article(text, title, authors) ==
    [raises |-> FALSE, text |-> text, title |-> title, authors |-> authors]

Articles ==
    { [raises |-> TRUE, text |-> <<>>, title |-> <<>>, authors |-> <<>>],
      Article(<<>>, <<>>, <<>>),
      Article(Letters(MinTextChars), <<"A", "b">>, <<>>),
      Article(Words(FewWords), <<"A", "b">>, << <<"A", "b">>, <<"B", "a">> >>),
      Article(Words(ManyWords), <<>>, <<>>) }

Page(downloaded, text, meta_title, meta_author) ==
    [raises |-> FALSE, downloaded |-> downloaded, text |-> text,
     meta_title |-> meta_title, meta_author |-> meta_author]

Pages ==
    { [raises |-> TRUE, downloaded |-> FALSE, text |-> <<>>, meta_title |-> <<>>,
       meta_author |-> <<>>],
      Page(FALSE, <<>>, <<>>, <<>>),
      Page(TRUE, Words(AiWords), <<>>, <<>>),
      Page(TRUE, HeadedText(FewWords + 1), <<"B", "a", " ", "b">>, <<"A", "b">>),
      Page(TRUE, Words(MinGoodWords), <<>>, <<>>) }

Doc(title, summary, text) ==
    [raises |-> FALSE, title |-> title, summary |-> summary, text |-> text]

Docs ==
    { [raises |-> TRUE, title |-> <<>>, summary |-> <<>>, text |-> <<>>],
      Doc(<<"A", "b">>, Html(<<"a">>), <<"a", "\n", "\n">>),
      Doc(<<"A", "b">>, Repeat(Html(<<>>), MinTextChars), <<"\n", "\n">>),
      Doc(<<"A", "b">>, Html(Words(MinGoodWords - 1)),
          <<"[", "]", "(", "a", "b", ")", " ">> \o Words(MinGoodWords - 1) \o <<"\n", "\n">>),
      Doc(<<>>, Html(Words(ManyWords + 1)), Words(ManyWords + 1) \o <<"\n", "\n">>) }

\* The text of a response that is JSON: only its emptiness is read.
JsonText == <<"{", "}">>
FencedText == <<"j", "s", "o", "n", "\n", "{", "}">>

FetchedObjects ==
    { JsonObject(Str(Words(AiWords)), Absent, Null, NoCategory),
      JsonObject(Str(Words(ManyWords + 2)), Str(<<"B", "a">>), Str(<<"A", "b">>),
                 Category("news")),
      JsonObject(Str(<<" ", " ">>), Absent, Absent, NoCategory),
      EmptyObject }

DirectResponses ==
    {ResponseRaises, FreeText(<<>>), FreeText(Words(AiWords)),
     OneLineJson(JsonText, ParsedOther),
     ManyLineJson(JsonText, ParsedDict(JsonObject(Str(Words(ManyWords)), Absent, Absent,
                                                  NoCategory)))}
        \cup {OneLineJson(JsonText, ParsedDict(obj)) : obj \in FetchedObjects}

EnhancedObjects ==
    { JsonObject(Str(Words(AiWords)), Str(<<"B", "a">>), Str(<<"B", "b">>),
                 Category("news")),
      JsonObject(Str(<<>>), Null, Null, Category("guide")),
      JsonObject(Null, Absent, Absent, NoCategory),
      JsonObject(Str(Words(FewWords)), Str(<<>>), Absent, NullCategory),
      EmptyObject }

EnhanceResponses ==
    {ResponseRaises, FreeText(<<>>), FreeText(<<" ", "\n">>),
     FreeText(<<" ">> \o Words(AiWords)),
     OneLineJson(JsonText, ParsedOther),
     FencedJson(FencedText, ParsedOther),
     FencedJson(FencedText, ParseError),
     UnclosedFence(FencedText),
     FencedJson(FencedText, ParsedDict(JsonObject(Str(Words(AiWords + 1)), Absent, Absent,
                                                  NoCategory)))}
        \cup {OneLineJson(JsonText, ParsedDict(obj)) : obj \in EnhancedObjects}
        \cup {ManyLineJson(JsonText, ParsedDict(EmptyObject))}

\* The pages and the documents given to scrape_pdf.
BodyWords == 30

BodyPage == Words(BodyWords) \o <<"b", ".">>
TocPage ==
    <<"A", "b", "a", "b", " ", "a", "b", " ", ".", ".", ".", " ", "1", "\n",
      "B", "a", "b", "a", "-", "a", "b", " ", ".", ".", "5", "\n",
      "W", "a", "b", " ", "a", ":", "b", "\t", ".", ".", ".", ".", " ", " ", "9">>
HeadingPage == <<"a", "b", "\n", " ", "A", "B", " ", "A", "B", "A", " ", "\n">> \o Words(BodyWords)
NumberedPage == <<"1", "2", ".", " ", "A", "b", "\n">> \o Words(BodyWords)
LongPage == Words(TargetChunkSize \div 2)
SparsePage == <<"a">> \o Repeat(<<" ">>, 2 * BodyWords) \o <<"b", ".">>

Pdfs ==
    { <<TocPage>> \o Repeat(<<BodyPage>>, 11),
      <<TocPage, BodyPage>>,
      <<BodyPage, HeadingPage, BodyPage, NumberedPage, BodyPage, BodyPage, HeadingPage,
        BodyPage>>,
      <<HeadingPage, BodyPage>>,
      <<BodyPage, <<>>, BodyPage>>,
      <<LongPage, BodyPage, LongPage>>,
      << <<"a", "b", ".">> >>,
      <<TocPage>> \o Repeat(<<BodyPage>>, 3) \o Repeat(<< <<>> >>, 4)
          \o Repeat(<<BodyPage>>, 4),
      <<BodyPage, HeadingPage, BodyPage, NumberedPage, BodyPage>>,
      <<SparsePage>>,
      <<>> }

Filenames == {"book.pdf"}

\* What pdfplumber.open makes of file_content: the pages' texts, or nothing
\* when the bytes are no PDF.
NoFile == [opens |-> FALSE, pages |-> <<>>]
OpenedFile(pdf) == [opens |-> TRUE, pages |-> pdf]

----------------------------------------------------------------------------
(* ContentScraper.scrape_url as one call, for its callers: the chain of the *)
(* four methods, the enhancement and the record, on what the libraries and  *)
(* the AI service answer for the URL (site).                                *)

\* A URL text with the parts scrape_url reads from it.
UrlOf(text) ==
    [name |-> text, netloc |-> urlparse(text).netloc, path |-> urlparse(text).path]

\* Lines 540-565: the enhancement and the record, or line 538.
Conclude(chain, u, team, user, hint, model, site) ==
    IF ~chain.best_content.some THEN Exhausted(chain.tried)
    ELSE Returned(Finalize(chain.best_content,
                           _enhance_content_with_gemini(model, chain.best_content.content,
                                                        site.enhance),
                           hint),
                  u, team, user)

\* Method 4 on the locals s3 the third method left.
After4(s3, u, team, user, hint, model, site) ==
    Conclude(IF NeedsFallback(s3.best_content, s3.best_word_count, model)
                /\ Method4Accepts(site.direct)
             THEN Replace(s3.best_content, s3.best_word_count, s3.tried,
                          Method4Candidate(site.direct, u))
             ELSE s3,
             u, team, user, hint, model, site)

After3(s2, u, team, user, hint, model, site) ==
    After4(IF Method3Accepts(site.doc)
           THEN Offer(s2.best_content, s2.best_word_count, s2.tried,
                      Method3Candidate(site.doc, u))
           ELSE s2,
           u, team, user, hint, model, site)

After2(s1, u, team, user, hint, model, site) ==
    After3(IF Method2Accepts(site.page)
           THEN Offer(s1.best_content, s1.best_word_count, s1.tried,
                      Method2Candidate(site.page, u))
           ELSE s1,
           u, team, user, hint, model, site)

\* scrape_url: the four methods in turn from empty locals, then the result.
scrape_url(u, team, user, hint, model, site) ==
    After2(IF Method1Accepts(site.article)
           THEN Offer(NoContent, 0, <<>>, Method1Candidate(site.article, u))
           ELSE Untouched(NoContent, 0, <<>>),
           u, team, user, hint, model, site)

----------------------------------------------------------------------------
(* ContentScraper.bulk_scrape_with_links and _extract_links_from_content.   *)

\* Lines 396-402: the hint inferred from the link.
LinkContentType(link) ==
    IF Contains(Lower(link), <<"p", "o", "d", "c", "a", "s", "t">>) THEN "podcast_transcript"
    ELSE IF Contains(Lower(link), <<"l", "i", "n", "k", "e", "d", "i", "n">>) THEN "linkedin_post"
    ELSE IF Contains(Lower(link), <<"r", "e", "d", "d", "i", "t">>) THEN "reddit_comment"
    ELSE "blog"

\* Lines 366-373: the absolute links of the hrefs, each once, in the order of
\* discovery; an empty href is passed over.
RECURSIVE AbsoluteLinks(_, _, _)
AbsoluteLinks(base, hrefs, found) ==
    IF Len(hrefs) = 0 THEN found
    ELSE LET full_url == urljoin(base, Head(hrefs))
         IN  AbsoluteLinks(base, Tail(hrefs),
                           IF Len(Head(hrefs)) = 0 \/ full_url \in Range(found)
                           THEN found ELSE Append(found, full_url))

\* Line 375 left out: every link is kept.
Untruncated(links, limit) == links

\* Line 375 cutting from the other end: the last max_links links.
LastLinks(links, limit) ==
    SubSeq(links, (IF limit < Len(links) THEN Len(links) - limit ELSE 0) + 1, Len(links))

\* all_links[:max_links], for max_links > 0
Truncated(links, limit) ==
    SubSeq(links, 1, IF limit < Len(links) THEN limit ELSE Len(links))

\* Lines 378-379 left out: no link is passed over.
NeverProcessed(link, processed) == FALSE

\* Line 378: "link in processed_urls"
AlreadyProcessed(link, processed) == link \in processed

\* Line 359 left out: the seed page is fetched whatever the arguments.
DiscoversAlways(depth, limit) == TRUE

\* Line 359: links are looked for.
DiscoversLinks(depth, limit) == depth > 0 /\ limit > 0

\* The except at line 407 leaving the loop in place of "continue".
AfterScrapeAbort(ok) == IF ok THEN "bulk_links" ELSE "bulk_save"

\* Lines 403-409: after the scrape of a link, returned or failed, the loop
\* goes on with the next link.
AfterScrape(ok) == "bulk_links"

\* A response that reports a failure and holds no item.
BulkScrapeFailure(team, items) == [status |-> "error", team_id |-> team, items |-> <<>>]

\* Lines 419-422: BulkScrapeResponse(team_id=team_id, items=scraped_items)
BulkScrapeResponse(team, items) == [status |-> "ok", team_id |-> team, items |-> items]

\* Lines 380-391: is_article after the inline question to the AI service (which
\* did not raise).
InlineVerdict(model, response) ==
    model /\ VerdictParses(response) /\ response.is_blog_link

\* Lines 314-334 of _extract_links_from_content: the links _is_valid_blog_link
\* accepts, each once, in the order of discovery.
RECURSIVE ValidLinks(_, _, _, _, _)
ValidLinks(base, hrefs, model, responses, found) ==
    IF Len(hrefs) = 0 THEN found
    ELSE LET full_url == urljoin(base, Head(hrefs))
             keep == /\ Len(Head(hrefs)) > 0
                     /\ _is_valid_blog_link(model, full_url, Head(responses))
                     /\ full_url \notin Range(found)
         IN  ValidLinks(base, Tail(hrefs), model, Tail(responses),
                        IF keep THEN Append(found, full_url) ELSE found)

----------------------------------------------------------------------------
(* The inputs of a crawl: its arguments, the seed page's hrefs, what        *)
(* scrape_url meets at a URL, and the AI service's verdicts on a link.      *)

MaxLinks == 2
MaxDepth == 2

Seeds == {<<"h", "t", "t", "p", "s", ":", "/", "/", "e", "x", "a", "m", "p", "l", "e", ".", "c", "o", "m", "/", "b", "l", "o", "g", "/">>}
Depths == -1..MaxDepth
Limits == 0..MaxLinks

\* The href attributes of the seed page's anchors, in document order.
SeedPages ==
    { <<<<"/", "t", "a", "g", "/", "f", "o", "o">>, <<"/", "2", "0", "2", "4", "/", "0", "3", "/", "1", "5", "/", "m", "y", "-", "p", "o", "s", "t", "/">>, <<"/", "t", "a", "g", "/", "f", "o", "o">>,
        <<"h", "t", "t", "p", "s", ":", "/", "/", "e", "x", "a", "m", "p", "l", "e", ".", "c", "o", "m", "/", "2", "0", "2", "4", "/", "0", "3", "/", "1", "5", "/", "m", "y", "-", "p", "o", "s", "t", "/">>>>,
      << <<>>, <<"h", "t", "t", "p", "s", ":", "/", "/", "e", "x", "a", "m", "p", "l", "e", ".", "c", "o", "m", "/", "b", "l", "o", "g", "/">>, <<"p", "o", "d", "c", "a", "s", "t", "/", "1">>, <<"#", "t", "o", "p">>>>,
      <<<<"/", "b", "l", "o", "g", "/", "t", "a", "g", "/", "x", "/">>, <<"f", "t", "p", ":", "/", "/", "e", "x", "a", "m", "p", "l", "e", ".", "c", "o", "m", "/", "b", "l", "o", "g", "/", "x">>>>,
      <<<<"h", "t", "t", "p", "s", ":", "/", "/", "l", "o", "c", "a", "l", "h", "o", "s", "t", "/">>, <<"h", "t", "t", "p", "s", ":", "/", "/", "e", "x", "a", "m", "p", "l", "e", ".", "c", "o", "m", "/">>>>,
      <<>> }

NothingThere ==
    [article |-> [raises |-> TRUE, text |-> <<>>, title |-> <<>>, authors |-> <<>>],
     page |-> [raises |-> TRUE, downloaded |-> FALSE, text |-> <<>>,
               meta_title |-> <<>>, meta_author |-> <<>>],
     doc |-> [raises |-> TRUE, title |-> <<>>, summary |-> <<>>, text |-> <<>>],
     direct |-> ResponseRaises,
     enhance |-> ResponseRaises]

\* What the libraries and the AI service answer for one URL.
Sites ==
    { NothingThere,
      [NothingThere EXCEPT !.article = Article(Words(FewWords), <<"A", "b">>, <<>>)],
      [NothingThere EXCEPT
          !.article = Article(Words(FewWords), <<"A", "b">>, <<>>),
          !.enhance = OneLineJson(JsonText,
                                  ParsedDict(JsonObject(Str(Words(AiWords)), Absent,
                                                        Absent, Category("news"))))] }

NoVerdict == Verdict(FALSE, <<>>, "error", FALSE)

\* The service raises, or answers {"is_blog_link": true}, {"is_blog_link":
\* false}, or a first line that is not JSON.
Verdicts ==
    { Verdict(TRUE, <<>>, "error", FALSE),
      Verdict(FALSE, JsonText, "dict", TRUE),
      Verdict(FALSE, JsonText, "dict", FALSE),
      Verdict(FALSE, <<"a", "b">>, "error", FALSE) }

VerdictsOf(model) == IF model THEN Verdicts ELSE {NoVerdict}

NoBulkResult == [status |-> "none", team_id |-> "", items |-> <<>>]

\* An entry of the history: a scrape, a fetch of the seed page, a delay, a
\* verdict on a link, an insert into the database.
Entry(op, link, ok, response) ==
    [op |-> op, url |-> link, ok |-> ok, response |-> response]

\* No crawl is under way.
NoCrawl ==
    /\ max_depth = 1
    /\ max_links = 10
    /\ include_base_url = TRUE
    /\ scraped_items = <<>>
    /\ processed_urls = {}
    /\ link_decisions = <<>>
    /\ found_links = <<>>
    /\ all_links = <<>>
    /\ link_index = 0
    /\ bulk_result = NoBulkResult
    /\ unique_links = <<>>
    /\ journal = <<>>

\* No scrape_url or scrape_pdf call of the API is under way.
NoScrape ==
    /\ content_type = "blog"
    /\ best_content = NoContent
    /\ best_word_count = 0
    /\ extraction_methods_tried = <<>>
    /\ enhanced_result = NotEnhanced(<<>>)
    /\ enhance_response = NoResponse
    /\ result = NoResult
    /\ ran = <<>>
    /\ attempts = <<>>
    /\ pdf_items = <<>>
    /\ file_content = NoFile

----------------------------------------------------------------------------
(* The steps of one scrape_url call, and scrape_pdf.                        *)

Init ==
    /\ pc = "idle"
    /\ url \in Urls
    /\ \E scope \in Scopes : team_id = scope[1] /\ user_id = scope[2]
    /\ content_type \in Hints
    /\ gemini_model \in BOOLEAN
    /\ best_content = NoContent
    /\ best_word_count = 0
    /\ extraction_methods_tried = <<>>
    /\ enhanced_result = NotEnhanced(<<>>)
    /\ enhance_response = NoResponse
    /\ result = NoResult
    /\ ran = <<>>
    /\ attempts = <<>>
    /\ pdf_items = <<>>
    /\ file_content = NoFile
    /\ NoCrawl

\* scrape_url is entered: lines 432-434.
Call ==
    /\ pc = "idle"
    /\ pc' = "method1"
    /\ best_content' = NoContent
    /\ best_word_count' = 0
    /\ extraction_methods_tried' = <<>>
    /\ UNCHANGED bulk_vars
    /\ UNCHANGED <<url, team_id, user_id, content_type, gemini_model, enhanced_result,
                   enhance_response, result, ran, attempts, pdf_items,
                   file_content>>

\* The caller has the result; the next call starts from nothing.
Return ==
    /\ pc \in {"done", "pdf_done"}
    /\ pc' = "idle"
    /\ best_content' = NoContent
    /\ best_word_count' = 0
    /\ extraction_methods_tried' = <<>>
    /\ enhanced_result' = NotEnhanced(<<>>)
    /\ enhance_response' = NoResponse
    /\ result' = NoResult
    /\ ran' = <<>>
    /\ attempts' = <<>>
    /\ pdf_items' = <<>>
    /\ file_content' = NoFile
    /\ UNCHANGED bulk_vars
    /\ UNCHANGED <<url, team_id, user_id, content_type, gemini_model>>

\* scrape_pdf, on a document that opens (its sections become items) or on one
\* pdfplumber cannot open (the except returns the empty list).
ScrapePdf ==
    /\ pc = "idle"
    /\ \/ \E pdf \in Pdfs, filename \in Filenames :
              /\ pdf_items' = scrape_pdf(pdf, filename, user_id)
              /\ file_content' = OpenedFile(pdf)
       \/ /\ pdf_items' = <<>>
          /\ file_content' = NoFile
    /\ pc' = "pdf_done"
    /\ UNCHANGED bulk_vars
    /\ UNCHANGED <<url, team_id, user_id, content_type, gemini_model, best_content,
                   best_word_count, extraction_methods_tried, enhanced_result,
                   enhance_response, result, ran, attempts>>

\* The effect of one method's try block on the locals and on the history.
Step(step, method, raised, accepted, after, cand) ==
    /\ best_content' = after.best_content
    /\ best_word_count' = after.best_word_count
    /\ extraction_methods_tried' = after.tried
    /\ ran' = Append(ran, [method |-> method, outcome |-> Outcome(raised, accepted)])
    /\ attempts' = IF accepted
                   THEN Append(attempts, [method |-> method,
                                          word_count |-> cand.word_count])
                   ELSE attempts
    /\ pc' = StepAfter(step, raised)
    /\ UNCHANGED bulk_vars
    /\ UNCHANGED <<url, team_id, user_id, content_type, gemini_model, enhanced_result,
                   enhance_response, result, pdf_items,
                   file_content>>

Method1 ==
    /\ pc = "method1"
    /\ \E article \in Articles :
          LET cand == Method1Candidate(article, url)
              ok == Method1Accepts(article)
          IN  Step("method1", "newspaper3k", article.raises, ok,
                   IF ok
                   THEN Offer(best_content, best_word_count, extraction_methods_tried, cand)
                   ELSE Untouched(best_content, best_word_count, extraction_methods_tried),
                   cand)

Method2 ==
    /\ pc = "method2"
    /\ \E page \in Pages :
          LET cand == Method2Candidate(page, url)
              ok == Method2Accepts(page)
          IN  Step("method2", "trafilatura", page.raises, ok,
                   IF ok
                   THEN Offer(best_content, best_word_count, extraction_methods_tried, cand)
                   ELSE Untouched(best_content, best_word_count, extraction_methods_tried),
                   cand)

Method3 ==
    /\ pc = "method3"
    /\ \E doc \in Docs :
          LET cand == Method3Candidate(doc, url)
              ok == Method3Accepts(doc)
          IN  Step("method3", "readability", doc.raises, ok,
                   IF ok
                   THEN Offer(best_content, best_word_count, extraction_methods_tried, cand)
                   ELSE Untouched(best_content, best_word_count, extraction_methods_tried),
                   cand)

\* Method 4 is skipped: its condition is false.
SkipMethod4 ==
    /\ pc = "method4"
    /\ ~NeedsFallback(best_content, best_word_count, gemini_model)
    /\ pc' = "finish"
    /\ UNCHANGED bulk_vars
    /\ UNCHANGED <<url, team_id, user_id, content_type, gemini_model, best_content,
                   best_word_count, extraction_methods_tried, enhanced_result,
                   enhance_response, result, ran, attempts, pdf_items,
                   file_content>>

Method4 ==
    /\ pc = "method4"
    /\ NeedsFallback(best_content, best_word_count, gemini_model)
    /\ \E response \in DirectResponses :
          LET cand == Method4Candidate(response, url)
              ok == Method4Accepts(response)
          IN  Step("method4", "gemini-direct-fetch", response.raises, ok,
                   IF ok
                   THEN Replace(best_content, best_word_count, extraction_methods_tried,
                                cand)
                   ELSE Untouched(best_content, best_word_count, extraction_methods_tried),
                   cand)

\* "if not best_content: raise Exception(...)"
Fail ==
    /\ pc = "finish"
    /\ ~best_content.some
    /\ result' = Exhausted(extraction_methods_tried)
    /\ pc' = "done"
    /\ UNCHANGED bulk_vars
    /\ UNCHANGED <<url, team_id, user_id, content_type, gemini_model, best_content,
                   best_word_count, extraction_methods_tried, enhanced_result,
                   enhance_response, ran, attempts, pdf_items,
                   file_content>>

\* Lines 540-565: the enhancement and the returned record.
Finish ==
    /\ pc = "finish"
    /\ best_content.some
    /\ \E response \in IF EnhanceCalls(gemini_model, best_content.content)
                       THEN EnhanceResponses ELSE {NoResponse} :
          LET enhanced == _enhance_content_with_gemini(gemini_model, best_content.content,
                                                      response)
          IN  /\ enhance_response' = response
              /\ enhanced_result' = enhanced
              /\ result' = Returned(Finalize(best_content, enhanced, content_type),
                                    url, team_id, user_id)
    /\ pc' = "done"
    /\ UNCHANGED bulk_vars
    /\ UNCHANGED <<url, team_id, user_id, content_type, gemini_model, best_content,
                   best_word_count, extraction_methods_tried, ran, attempts, pdf_items,
                   file_content>>

Next ==
    \/ Call
    \/ Method1
    \/ Method2
    \/ Method3
    \/ SkipMethod4
    \/ Method4
    \/ Fail
    \/ Finish
    \/ ScrapePdf
    \/ Return

Spec == Init /\ [][Next]_vars

----------------------------------------------------------------------------
(* The steps of one bulk_scrape_with_links call, and                        *)
(* _extract_links_from_content.                                             *)

scrape_vars == <<content_type, best_content, best_word_count, extraction_methods_tried,
                 enhanced_result, enhance_response, result, ran, attempts, pdf_items,
                   file_content>>

BulkInit ==
    /\ pc = "idle"
    /\ url = UrlOf(CHOOSE seed \in Seeds : TRUE)
    /\ team_id = ""
    /\ user_id = "None"
    /\ gemini_model \in BOOLEAN
    /\ NoScrape
    /\ NoCrawl

\* bulk_scrape_with_links is entered: lines 346-348.
BulkCall ==
    /\ pc = "idle"
    /\ \E seed \in Seeds, scope \in Scopes, depth \in Depths, limit \in Limits,
          include \in BOOLEAN :
          /\ url' = UrlOf(seed)
          /\ team_id' = scope[1]
          /\ user_id' = scope[2]
          /\ max_depth' = depth
          /\ max_links' = limit
          /\ include_base_url' = include
    /\ scraped_items' = <<>>
    /\ processed_urls' = {}
    /\ link_decisions' = <<>>
    /\ journal' = <<>>
    /\ pc' = "bulk_seed"
    /\ UNCHANGED <<gemini_model, found_links, all_links, link_index, bulk_result,
                   unique_links>>
    /\ UNCHANGED scrape_vars

\* Step 1, lines 351-357: the base URL is scraped; a failure is logged.
ScrapeBase ==
    /\ pc = "bulk_seed"
    /\ include_base_url
    /\ \E site \in Sites :
          LET base_content == scrape_url(url, team_id, user_id, "blog", gemini_model,
                                         site)
              ok == base_content.status = "ok"
          IN  /\ scraped_items' = IF ok THEN Append(scraped_items, base_content.item)
                                  ELSE scraped_items
              /\ processed_urls' = IF ok THEN processed_urls \cup {url.name}
                                   ELSE processed_urls
              /\ journal' = Append(journal, Entry("scrape", url.name, ok, NoVerdict))
    /\ pc' = "bulk_discover"
    /\ UNCHANGED <<url, team_id, user_id, gemini_model, max_depth, max_links,
                   include_base_url, link_decisions, found_links, all_links, link_index,
                   bulk_result, unique_links>>
    /\ UNCHANGED scrape_vars

\* Step 1 is skipped: include_base_url is false.
SkipBase ==
    /\ pc = "bulk_seed"
    /\ ~include_base_url
    /\ pc' = "bulk_discover"
    /\ UNCHANGED <<url, team_id, user_id, gemini_model>>
    /\ UNCHANGED bulk_vars
    /\ UNCHANGED scrape_vars

\* Line 359 is false: no link is looked for.
SkipLinks ==
    /\ pc = "bulk_discover"
    /\ ~DiscoversLinks(max_depth, max_links)
    /\ pc' = "bulk_save"
    /\ UNCHANGED <<url, team_id, user_id, gemini_model>>
    /\ UNCHANGED bulk_vars
    /\ UNCHANGED scrape_vars

\* Step 2, lines 361-375: the seed page is fetched and its links are listed;
\* a failure of the fetch ends the step (line 410).
FetchBase ==
    /\ pc = "bulk_discover"
    /\ DiscoversLinks(max_depth, max_links)
    /\ \/ /\ journal' = Append(journal, Entry("fetch", url.name, FALSE, NoVerdict))
          /\ pc' = "bulk_save"
          /\ UNCHANGED <<found_links, all_links, link_index>>
       \/ \E hrefs \in SeedPages :
             /\ journal' = Append(journal, Entry("fetch", url.name, TRUE, NoVerdict))
             /\ found_links' = AbsoluteLinks(url.name, hrefs, <<>>)
             /\ all_links' = Truncated(found_links', max_links)
             /\ link_index' = 1
             /\ pc' = "bulk_links"
    /\ UNCHANGED <<url, team_id, user_id, gemini_model, max_depth, max_links,
                   include_base_url, scraped_items, processed_urls, link_decisions,
                   bulk_result, unique_links>>
    /\ UNCHANGED scrape_vars

\* "for link in all_links" has no link left.
LinksDone ==
    /\ pc = "bulk_links"
    /\ link_index > Len(all_links)
    /\ pc' = "bulk_save"
    /\ UNCHANGED <<url, team_id, user_id, gemini_model>>
    /\ UNCHANGED bulk_vars
    /\ UNCHANGED scrape_vars

\* Lines 378-379: "if link in processed_urls: continue"
SkipProcessed ==
    /\ pc = "bulk_links"
    /\ link_index <= Len(all_links)
    /\ AlreadyProcessed(all_links[link_index], processed_urls)
    /\ link_index' = link_index + 1
    /\ UNCHANGED <<pc, url, team_id, user_id, gemini_model, max_depth, max_links,
                   include_base_url, scraped_items, processed_urls, link_decisions,
                   found_links, all_links, bulk_result, unique_links, journal>>
    /\ UNCHANGED scrape_vars

\* Step 3, lines 380-394: the link's verdict.  generate_content is called
\* outside any inner try: when it raises, line 410 ends the loop.
ClassifyLink ==
    /\ pc = "bulk_links"
    /\ link_index <= Len(all_links)
    /\ ~AlreadyProcessed(all_links[link_index], processed_urls)
    /\ \E response \in VerdictsOf(gemini_model) :
          LET link == all_links[link_index]
              is_article == InlineVerdict(gemini_model, response)
          IN  IF gemini_model /\ response.raises
              THEN /\ journal' = Append(journal, Entry("classify", link, FALSE, response))
                   /\ pc' = "bulk_save"
                   /\ UNCHANGED <<link_decisions, link_index>>
              ELSE /\ journal' = Append(journal,
                                        Entry("classify", link, is_article, response))
                   /\ link_decisions' = Append(link_decisions,
                                               [url |-> link, is_article |-> is_article])
                   /\ pc' = IF is_article THEN "bulk_scrape" ELSE "bulk_links"
                   /\ link_index' = IF is_article THEN link_index ELSE link_index + 1
    /\ UNCHANGED <<url, team_id, user_id, gemini_model, max_depth, max_links,
                   include_base_url, scraped_items, processed_urls, found_links,
                   all_links, bulk_result, unique_links>>
    /\ UNCHANGED scrape_vars

\* Lines 395-409: the accepted link is scraped; asyncio.sleep(0.5) follows a
\* scrape that returned, and a failure is logged.
ScrapeLink ==
    /\ pc = "bulk_scrape"
    /\ \E site \in Sites :
          LET link == all_links[link_index]
              link_content == scrape_url(UrlOf(link), team_id, user_id,
                                         LinkContentType(link), gemini_model, site)
              ok == link_content.status = "ok"
          IN  /\ scraped_items' = IF ok THEN Append(scraped_items, link_content.item)
                                  ELSE scraped_items
              /\ processed_urls' = IF ok THEN processed_urls \cup {link}
                                   ELSE processed_urls
              /\ journal' = IF ok
                            THEN journal \o <<Entry("scrape", link, TRUE, NoVerdict),
                                              Entry("sleep", link, TRUE, NoVerdict)>>
                            ELSE Append(journal, Entry("scrape", link, FALSE, NoVerdict))
              /\ pc' = AfterScrape(ok)
    /\ link_index' = link_index + 1
    /\ UNCHANGED <<url, team_id, user_id, gemini_model, max_depth, max_links,
                   include_base_url, link_decisions, found_links, all_links, bulk_result,
                   unique_links>>
    /\ UNCHANGED scrape_vars

\* Step 4 and the return, lines 413-422: every item is handed to the
\* database (a failed insert is logged) and the response is built.
SaveAndRespond ==
    /\ pc = "bulk_save"
    /\ journal' = journal \o [k \in 1..Len(scraped_items) |->
                                 Entry("insert", scraped_items[k].source_url, TRUE,
                                       NoVerdict)]
    /\ bulk_result' = BulkScrapeResponse(team_id, scraped_items)
    /\ pc' = "bulk_done"
    /\ UNCHANGED <<url, team_id, user_id, gemini_model, max_depth, max_links,
                   include_base_url, scraped_items, processed_urls, link_decisions,
                   found_links, all_links, link_index, unique_links>>
    /\ UNCHANGED scrape_vars

\* _extract_links_from_content on a page's hrefs: each link is put to
\* _is_valid_blog_link, which asks the AI service when it is configured.
ExtractLinks ==
    /\ pc = "idle"
    /\ \E seed \in Seeds, hrefs \in SeedPages :
          \E responses \in [1..Len(hrefs) -> VerdictsOf(gemini_model)] :
             LET asked == {k \in 1..Len(hrefs) : Len(hrefs[k]) > 0}
             IN  /\ unique_links' = ValidLinks(seed, hrefs, gemini_model, responses, <<>>)
                 /\ journal' = Keep([k \in 1..Len(hrefs) |->
                                        Entry("validate", urljoin(seed, hrefs[k]),
                                              _is_valid_blog_link(gemini_model,
                                                                  urljoin(seed, hrefs[k]),
                                                                  responses[k]),
                                              responses[k])],
                                    [k \in 1..Len(hrefs) |-> k \in asked])
    /\ pc' = "links_done"
    /\ UNCHANGED <<url, team_id, user_id, gemini_model, max_depth, max_links,
                   include_base_url, scraped_items, processed_urls, link_decisions,
                   found_links, all_links, link_index, bulk_result>>
    /\ UNCHANGED scrape_vars

\* The caller has the response; the next call starts from nothing.
BulkReturn ==
    /\ pc \in {"bulk_done", "links_done"}
    /\ pc' = "idle"
    /\ url' = UrlOf(CHOOSE seed \in Seeds : TRUE)
    /\ team_id' = ""
    /\ user_id' = "None"
    /\ max_depth' = 1
    /\ max_links' = 10
    /\ include_base_url' = TRUE
    /\ scraped_items' = <<>>
    /\ processed_urls' = {}
    /\ link_decisions' = <<>>
    /\ found_links' = <<>>
    /\ all_links' = <<>>
    /\ link_index' = 0
    /\ bulk_result' = NoBulkResult
    /\ unique_links' = <<>>
    /\ journal' = <<>>
    /\ UNCHANGED gemini_model
    /\ UNCHANGED scrape_vars

BulkNext ==
    \/ BulkCall
    \/ ScrapeBase
    \/ SkipBase
    \/ SkipLinks
    \/ FetchBase
    \/ LinksDone
    \/ SkipProcessed
    \/ ClassifyLink
    \/ ScrapeLink
    \/ SaveAndRespond
    \/ ExtractLinks
    \/ BulkReturn

BulkSpec == BulkInit /\ [][BulkNext]_vars

----------------------------------------------------------------------------
(* The claims about scrape_url.                                             *)

Returns == pc = "done" /\ result.status = "ok"
Fails == pc = "done" /\ result.status = "error"

\* The enhancement call was made and the service answered some text.
AiAnswered ==
    /\ EnhanceCalls(gemini_model, best_content.content)
    /\ ~enhance_response.raises
    /\ Len(enhance_response.text) > 0

\* The answer parses as JSON, as a whole or inside its fence.
AnswerIsJson ==
    \/ enhance_response.whole.parsed # "error"
    \/ enhance_response.fence = "closed" /\ enhance_response.inner.parsed # "error"

\* The answer holds a JSON object, as a whole or inside its fence.
AnswerIsObject ==
    \/ enhance_response.whole.parsed = "dict"
    \/ /\ enhance_response.whole.parsed = "error"
       /\ enhance_response.fence = "closed"
       /\ enhance_response.inner.parsed = "dict"

AnswerObject ==
    IF enhance_response.whole.parsed = "dict"
    THEN enhance_response.whole.obj ELSE enhance_response.inner.obj

\* The returned item is the winning attempt, normalised, under its bare method.
KeepsWinner ==
    /\ result.item.content = _clean_and_convert_to_markdown(best_content.content)
    /\ result.item.title = best_content.title
    /\ result.item.author = best_content.author
    /\ result.item.extraction_method = <<best_content.method>>

\* C1: whenever scrape_url returns an item, the attempt it selected has a
\* word_count at least that of every attempt a strategy produced in the call.
C1_HighestWordCountWins ==
    Returns => \A a \in Range(attempts) : best_content.word_count >= a.word_count

\* C2: scrape_url fails if and only if no strategy produced an attempt.
C2_FailsIffNoAttempt ==
    pc = "done" => (result.status = "error" <=> attempts = <<>>)

\* C3: when the chain is exhausted, the failure lists every method that was
\* attempted in the call, however it ended.
C3_FailureListsAttempted ==
    (Fails /\ result.cause = "exhausted")
        => \A r \in Range(ran) : r.method \in Range(result.tried)

\* C4: strategies 1, 2 and 3 are each attempted exactly once and in that
\* order, whatever the earlier ones did; an error in one never stops the next.
C4_ChainOrder ==
    LET order == <<"newspaper3k", "trafilatura", "readability">>
    IN  /\ \A k \in 1..Len(ran) :
              ran[k].method = IF k <= 3 THEN order[k] ELSE "gemini-direct-fetch"
        /\ Len(ran) <= 4
        /\ pc = "method1" => Len(ran) = 0
        /\ pc = "method2" => Len(ran) = 1
        /\ pc = "method3" => Len(ran) = 2
        /\ pc \in {"method4", "finish", "done"} => Len(ran) >= 3

\* C4's case: the first strategy raised, the second produced an attempt, and
\* the third still ran.
C4_Witness ==
    /\ pc = "done"
    /\ Len(ran) >= 3
    /\ ran[1].outcome = "raised"
    /\ ran[2].outcome = "attempt"
    /\ ran[3].outcome = "nothing"

\* C5: the AI direct fetch is attempted only if an AI service is configured
\* and no earlier strategy produced an attempt of at least 100 words.
C5_FallbackOnlyWhenPoor ==
    (\E r \in Range(ran) : r.method = "gemini-direct-fetch")
        => /\ gemini_model
           /\ \A a \in Range(attempts) :
                  a.method # "gemini-direct-fetch" => a.word_count < MinGoodWords

\* C5's case: the best earlier attempt is one word short of the threshold and
\* the AI service is asked.
C5_Witness ==
    /\ \E r \in Range(ran) : r.method = "gemini-direct-fetch"
    /\ \E a \in Range(attempts) :
          a.method # "gemini-direct-fetch" /\ a.word_count = MinGoodWords - 1

\* C6: every returned item has non-empty content and word_count > 0.
C6_ContentNonEmpty ==
    Returns => Len(result.item.content) > 0 /\ result.item.word_count > 0

\* C7: every item the core creates, by scrape_url or by scrape_pdf (one per
\* surviving section), carries a word_count equal to the number of
\* whitespace-delimited tokens of its own content.
C7_WordCountMatchesContent ==
    /\ Returns => result.item.word_count = WordCount(result.item.content)
    /\ pc = "pdf_done" =>
           \A k \in 1..Len(pdf_items) :
               /\ "word_count" \in DOMAIN pdf_items[k]
               /\ pdf_items[k].word_count = WordCount(pdf_items[k].content)

\* C8: the extraction_method of every returned item is one of the three base
\* strategy names.
C8_BaseMethodOnly ==
    Returns => result.item.extraction_method
                  \in {<<"newspaper3k">>, <<"trafilatura">>, <<"readability">>}

C10_ContentTypeFromAiOrHint ==
    Returns => result.item.content_type =
                  IF AiAnswered /\ AnswerIsObject /\ AnswerObject.category.kind = "str"
                  THEN AnswerObject.category.text
                  ELSE content_type

----------------------------------------------------------------------------
(* The claims about bulk_scrape_with_links and _is_valid_blog_link.         *)

BulkReturns == pc = "bulk_done" /\ bulk_result.status = "ok"

\* The places of the history that hold an entry of the kind op.
Places(op) == {k \in 1..Len(journal) : journal[k].op = op}

\* The scrapes of discovered links: the seed's scrape precedes the fetch.
LinkScrapes == {k \in Places("scrape") : \E j \in Places("fetch") : j < k}

\* The place of a link in a list that holds it once.
PlaceIn(links, link) == CHOOSE i \in 1..Len(links) : links[i] = link

\* The first place of a link among the resolved hrefs of a page.
FirstPlace(resolved, link) ==
    CHOOSE i \in 1..Len(resolved) :
        resolved[i] = link /\ \A j \in 1..(i - 1) : resolved[j] # link

\* found holds each resolved href once, in the order of first appearance.
IsDiscoveryOrder(resolved, found) ==
    /\ Range(found) = Range(resolved)
    /\ \A i, j \in 1..Len(found) :
          i < j => FirstPlace(resolved, found[i]) < FirstPlace(resolved, found[j])

\* The non-empty hrefs of a page, resolved against the seed.
Resolved(seed, hrefs) ==
    Keep([k \in 1..Len(hrefs) |-> urljoin(seed, hrefs[k])],
         [k \in 1..Len(hrefs) |-> Len(hrefs[k]) > 0])

\* The seed page has just been fetched and its links listed.
JustFetched ==
    /\ Len(journal) > 0
    /\ journal[Len(journal)].op = "fetch"
    /\ journal[Len(journal)].ok

\* C11: for max_links >= 0 the response holds at most max_links + 1 items when
\* include_base_url is true and at most max_links items when it is false,
\* however many links the seed page holds.
C11_AtMostMaxLinksPlusSeed ==
    (BulkReturns /\ max_links >= 0) =>
        Len(bulk_result.items) <= max_links + (IF include_base_url THEN 1 ELSE 0)

\* C11's case: the seed page holds more links than max_links and the response
\* is as long as the bound allows.
C11_Witness ==
    /\ BulkReturns
    /\ max_links > 0
    /\ include_base_url
    /\ Len(found_links) > max_links
    /\ Len(bulk_result.items) = max_links + 1

\* C12: the links that get a verdict or a scrape are among the first max_links
\* of the seed page's absolute links, which hold each link once in the order
\* of discovery, and the verdicts are given in that order.
C12_TruncatedBeforeClassified ==
    /\ JustFetched =>
          \E hrefs \in SeedPages :
             /\ found_links = AbsoluteLinks(url.name, hrefs, <<>>)
             /\ IsDiscoveryOrder(Resolved(url.name, hrefs), found_links)
    /\ all_links = SubSeq(found_links, 1, Len(all_links))
    /\ \A k \in Places("classify") \cup LinkScrapes :
          /\ journal[k].url \in Range(found_links)
          /\ PlaceIn(found_links, journal[k].url) <= max_links
    /\ \A j, k \in Places("classify") :
          j < k => PlaceIn(found_links, journal[j].url)
                      < PlaceIn(found_links, journal[k].url)

\* C12's case: every one of the first max_links links was rejected, in order,
\* and the links after them got no verdict.
C12_Witness ==
    /\ BulkReturns
    /\ max_links = MaxLinks
    /\ Len(found_links) > max_links
    /\ Len(link_decisions) = max_links
    /\ \A k \in 1..Len(link_decisions) :
          /\ ~link_decisions[k].is_article
          /\ link_decisions[k].url = found_links[k]
    /\ Cardinality(Places("classify")) = max_links

\* The call to the AI service failed, or its first line is not a JSON object.
AiGaveNoVerdict(response) == response.raises \/ ~VerdictParses(response)

\* C13: with no AI service configured, a candidate link the heuristic accepts
\* is accepted by the crawl (and so scraped).
C13_HeuristicWithoutAi ==
    \A k \in Places("classify") :
        (~gemini_model /\ HeuristicLink(journal[k].url)) => journal[k].ok

\* C14: with the AI service configured, a link whose call failed or whose
\* answer's first line is not JSON gets the verdict of the heuristic, from
\* _is_valid_blog_link and from the crawl alike.
C14_AiFailureFallsBack ==
    \A k \in Places("validate") \cup Places("classify") :
        (gemini_model /\ AiGaveNoVerdict(journal[k].response))
            => journal[k].ok = HeuristicLink(journal[k].url)

\* The URLs of the scrapes that returned an item, in the order of the scrapes.
ScrapedUrls ==
    Keep([k \in 1..Len(journal) |-> journal[k].url],
         [k \in 1..Len(journal) |-> journal[k].op = "scrape" /\ journal[k].ok])

\* No call to the AI service for a verdict raised.
NoVerdictRaised == \A j \in Places("classify") : ~journal[j].response.raises

\* The link at place i of all_links was skipped as processed, or has its
\* verdict at a place after k.
TakenUpAfter(i, k) ==
    \/ all_links[i] \in processed_urls
    \/ \E j \in Places("classify") : j > k /\ journal[j].url = all_links[i]

C16_DelayBetweenScrapes ==
    \A j, k \in Places("scrape") :
        j < k => \E d \in Places("sleep") : j < d /\ d < k

\* The seed's own scrape returned an item.
SeedScraped == \E k \in Places("scrape") \ LinkScrapes : journal[k].ok

\* The fetch of the seed page for its links failed.
FetchFailed == \E k \in Places("fetch") : ~journal[k].ok

C18_FailsOnlyWithNothing ==
    pc = "bulk_done" =>
        /\ bulk_result.status \in {"ok", "error"}
        /\ bulk_result.status = "error"
              => (FetchFailed /\ include_base_url /\ found_links = <<>>)
        /\ bulk_result.status = "ok" => bulk_result.items = scraped_items
        /\ (~SeedScraped /\ FetchFailed)
              => (bulk_result.status = "error" \/ bulk_result.items = <<>>)

\* C18's case: the seed was to be included, its scrape failed and so did its
\* fetch: the crawl returns, with no item.
C18_Witness ==
    /\ pc = "bulk_done"
    /\ include_base_url
    /\ \E k \in Places("scrape") : journal[k].url = url.name /\ ~journal[k].ok
    /\ FetchFailed
    /\ bulk_result.status = "ok"
    /\ bulk_result.items = <<>>

\* C19: every item of a crawl's response carries the team_id and user_id of
\* the call, and the response carries its team_id; no item comes from an
\* earlier call.
C19_ItemsCarryScope ==
    BulkReturns =>
        /\ bulk_result.team_id = team_id
        /\ \A k \in 1..Len(bulk_result.items) :
              /\ bulk_result.items[k].team_id = team_id
              /\ bulk_result.items[k].user_id = user_id
              /\ bulk_result.items[k].source_url \in Range(ScrapedUrls)

\* C19's case: a crawl for the second scope returned the seed and a link, both
\* under that scope.
C19_Witness ==
    /\ BulkReturns
    /\ team_id = "team-b"
    /\ user_id = "user-a"
    /\ Len(bulk_result.items) >= 2
    /\ \A k \in 1..Len(bulk_result.items) :
          bulk_result.items[k].team_id = "team-b" /\ bulk_result.items[k].user_id = "user-a"

\* The verdicts _is_valid_blog_link gave by its old logic: no AI service is
\* configured, or its answer, which did not raise, is no JSON object.
HeuristicVerdicts ==
    {k \in Places("validate") :
        ~gemini_model \/ (~journal[k].response.raises
                             /\ ~VerdictParses(journal[k].response))}

IsHttp(link) == urlparse(link).scheme \in {<<"h", "t", "t", "p">>, <<"h", "t", "t", "p", "s">>}

\* C20: by the old logic an http(s) URL that matches a skip pattern is
\* rejected, also when it matches an article pattern, and an http(s) URL that
\* matches an article pattern and no skip pattern is accepted; so are the two
\* URLs of the example.
C20_ExclusionBeforeInclusion ==
    /\ \A k \in HeuristicVerdicts :
          IsHttp(journal[k].url) =>
              /\ MatchesSkipPattern(Lower(journal[k].url)) => ~journal[k].ok
              /\ (MatchesArticlePattern(Lower(journal[k].url))
                     /\ ~MatchesSkipPattern(Lower(journal[k].url))) => journal[k].ok
    /\ pc = "links_done" =>
          /\ ~HeuristicLink(<<"h", "t", "t", "p", "s", ":", "/", "/", "e", "x", "a", "m", "p", "l", "e", ".", "c", "o", "m", "/", "t", "a", "g", "/", "f", "o", "o">>)
          /\ HeuristicLink(<<"h", "t", "t", "p", "s", ":", "/", "/", "e", "x", "a", "m", "p", "l", "e", ".", "c", "o", "m", "/", "2", "0", "2", "4", "/", "0", "3", "/", "1", "5", "/", "m", "y", "-", "p", "o", "s", "t", "/">>)

\* C20's case: a link that matches a skip pattern and an article pattern was
\* rejected by the old logic, and one that matches an article pattern only
\* was accepted.
C20_Witness ==
    /\ pc = "links_done"
    /\ \E k \in HeuristicVerdicts :
          /\ IsHttp(journal[k].url)
          /\ MatchesSkipPattern(Lower(journal[k].url))
          /\ MatchesArticlePattern(Lower(journal[k].url))
          /\ ~journal[k].ok
    /\ \E k \in HeuristicVerdicts :
          /\ IsHttp(journal[k].url)
          /\ ~MatchesSkipPattern(Lower(journal[k].url))
          /\ MatchesArticlePattern(Lower(journal[k].url))
          /\ journal[k].ok /\ journal[k].url \in Range(unique_links)

\* The path of the link is empty or is "/": a bare site root.
IsBareRoot(link) == urlparse(link).path \in {<<>>, <<"/">>}

\* C21: by the old logic every URL whose path is empty or "/" is rejected,
\* whatever its host, and so is every URL whose scheme is not http or https.
C21_BareRootAndSchemeRejected ==
    \A k \in HeuristicVerdicts :
        (IsBareRoot(journal[k].url) \/ ~IsHttp(journal[k].url)) => ~journal[k].ok

\* C26: when the AI service raises on the verdict of one link, every link
\* after it in all_links still comes to its verdict (or is passed over as
\* processed).
C26_AiFailureIsolated ==
    BulkReturns =>
        \A k \in Places("classify") :
            journal[k].response.raises =>
                \A i \in (PlaceIn(all_links, journal[k].url) + 1)..Len(all_links) :
                    TakenUpAfter(i, k)

\* scrape_url was called on the seed first and failed.
SeedScrapeFailed ==
    \E k \in Places("scrape") \ LinkScrapes : journal[k].url = url.name /\ ~journal[k].ok

\* The scrapes of the link, returned or failed.
ScrapesOf(link) == {k \in Places("scrape") : journal[k].url = link}

\* C27 as stated: scrape_url is called at most once for a URL.
C27_ScrapedAtMostOnce ==
    \A j, k \in Places("scrape") : journal[j].url = journal[k].url => j = k

\* C27: a URL gives at most one item, so the items have pairwise distinct
\* source_url; scrape_url is called once for a URL at most, but for the seed,
\* which is scraped a second time, as a link of its own page, when its first
\* scrape failed.
C27_DistinctItems ==
    /\ \A j, k \in 1..Len(scraped_items) :
          scraped_items[j].source_url = scraped_items[k].source_url => j = k
    /\ \A j, k \in 1..Len(bulk_result.items) :
          bulk_result.items[j].source_url = bulk_result.items[k].source_url => j = k
    /\ \A k \in Places("scrape") :
          /\ Cardinality(ScrapesOf(journal[k].url)) <= 2
          /\ Cardinality(ScrapesOf(journal[k].url)) = 2
                => (journal[k].url = url.name /\ SeedScrapeFailed)
          /\ Cardinality({j \in ScrapesOf(journal[k].url) : journal[j].ok}) <= 1

\* C27's case: the seed page links to itself; the seed's scrape failed, the
\* seed came up again as a link and was scraped, and the response holds it
\* once.
C27_Witness ==
    /\ BulkReturns
    /\ url.name \in Range(all_links)
    /\ SeedScrapeFailed
    /\ Cardinality(ScrapesOf(url.name)) = 2
    /\ Cardinality({k \in 1..Len(bulk_result.items) :
                       bulk_result.items[k].source_url = url.name}) = 1

----------------------------------------------------------------------------
(* The claims about scrape_pdf and _clean_and_convert_to_markdown.          *)

\* scrape_pdf returned, on a document pdfplumber opened.
PdfReturns == pc = "pdf_done" /\ file_content.opens

\* The text of the pages a..b of the document, counted from 1, a newline
\* after each.
RECURSIVE PagesText(_, _, _)
PagesText(pages, a, b) ==
    IF b < a THEN <<>> ELSE PagesText(pages, a, b - 1) \o pages[b] \o <<"\n">>

\* The k-th smallest of a set of numbers.
Nth(numbers, k) == CHOOSE i \in numbers : Cardinality({j \in numbers : j <= i}) = k

\* The text of the section of the i-th entry of a table of contents: from the
\* entry's page to the page before the next entry's, or to the last page.
TocSection(pages, toc, i) ==
    PagesText(pages, toc[i].page + 1,
              IF i < Len(toc) THEN toc[i + 1].page ELSE Len(pages))

\* The items are the sections of the table's entries that are long enough, in
\* the order of the table.
ItemsFollowToc(pages, toc, kept) ==
    /\ \A i, j \in 1..Len(toc) : i < j => toc[i].page <= toc[j].page
    /\ kept # {} =>
          /\ Len(pdf_items) = Cardinality(kept)
          /\ \A k \in 1..Len(pdf_items) :
                /\ pdf_items[k].title = TextTitle(toc[Nth(kept, k)].title)
                /\ pdf_items[k].content
                      = _clean_and_convert_to_markdown(TocSection(pages, toc, Nth(kept, k)))

ItemsFollowTocOf(pages, toc) ==
    ItemsFollowToc(pages, toc,
                   {i \in 1..Len(toc) :
                       Len(Strip(TocSection(pages, toc, i))) > MinSectionChars})

\* C22: when _detect_toc finds three entries or more, the items are the
\* sections of the entries in ascending order of target page, each from its
\* entry's page up to the next entry's page and the last one to the end of the
\* document (a section too short to be kept apart).
C22_OneSectionPerTocEntry ==
    PdfReturns =>
        (Len(_detect_toc(file_content.pages)) >= MinTocEntries
            => ItemsFollowTocOf(file_content.pages, _detect_toc(file_content.pages)))

\* C22's case: twelve pages, entries for the pages 1, 5 and 9: three items,
\* the last one of the pages 9 to 12.
C22_Witness ==
    /\ PdfReturns
    /\ Len(file_content.pages) = 12
    /\ [i \in 1..3 |-> _detect_toc(file_content.pages)[i].page] = <<0, 4, 8>>
    /\ Len(_detect_toc(file_content.pages)) = 3
    /\ Len(pdf_items) = 3
    /\ pdf_items[3].content
          = _clean_and_convert_to_markdown(PagesText(file_content.pages, 9, 12))

\* No line of the pages _detect_toc reads matches the pattern of a
\* table-of-contents line.
NoTocLines(pages) ==
    \A p \in 1..Smaller(TocScanPages, Len(pages)) :
        \A k \in 1..Len(SplitLines(pages[p])) :
            ~TocMatch(Strip(SplitLines(pages[p])[k])).matched

\* The pages on which _chunk_by_headings detects a heading.
HeadingPages(pages) == {i \in 1..Len(pages) : FirstHeading(pages[i]).found}

\* Every item is a chunk of the adaptive strategy.
AllChunks == \A k \in 1..Len(pdf_items) : pdf_items[k].title.kind = "Chunk"

\* The pages of every chunk, but for its last one, hold no more than the
\* target size.
ChunksWithinTarget(pages) ==
    \A k \in 1..Len(pdf_items) :
        Len(PagesText(pages, pdf_items[k].title.pages[1], pdf_items[k].title.pages[2] - 1))
            <= TargetChunkSize

\* The document has no table-of-contents line and fewer than three headings.
FewHeadings ==
    /\ PdfReturns
    /\ NoTocLines(file_content.pages)
    /\ Cardinality(HeadingPages(file_content.pages)) < MinHeadingChunks

FirstHeadingPage(pages) ==
    CHOOSE i \in HeadingPages(pages) : \A j \in HeadingPages(pages) : i <= j

C24_NoShortItem ==
    PdfReturns =>
        \A k \in 1..Len(pdf_items) : Len(pdf_items[k].content) >= MinSectionChars

\* C25: _clean_and_convert_to_markdown applied to its own result gives that
\* result again.
C25_NormalizeIdempotent ==
    PdfReturns =>
        \A k \in 1..Len(pdf_items) :
            _clean_and_convert_to_markdown(pdf_items[k].content) = pdf_items[k].content

\* The text of the page is part of the content of some chunk.
PageIsKept(chunks, text) ==
    \E c \in 1..Len(chunks) : Contains(chunks[c].content, Strip(text))

\* C28: the text of every page of a document with headings is held by some
\* chunk of _chunk_by_headings, the pages with a heading included.
C28_HeadingChunksLoseNoText ==
    (PdfReturns /\ HeadingPages(file_content.pages) # {}) =>
        \A i \in 1..Len(file_content.pages) :
            PageIsKept(_chunk_by_headings(file_content.pages), file_content.pages[i])

====
